---- MODULE Spec2Model ----
(***************************************************************************)
(* simple-sqsd: a worker daemon that long-polls an SQS queue, POSTs each   *)
(* message to an HTTP endpoint and deletes / defers / leaves the message   *)
(* according to the response.                                              *)
(*                                                                         *)
(* Two worker pools live in the repository and both are modelled:          *)
(*   - supervisor.Supervisor  (src/supervisor/supervisor.go)               *)
(*   - sqsworker.Director     (src/sqsworker/sqsworker.go) together with   *)
(*     its dispatcher sqshttp.Client (src/unnamed/part_008, lines 1-118)   *)
(* Two earlier revisions of the Supervisor source are kept in the tree     *)
(* (src/unnamed/part_006, src/unnamed/part_007); their response            *)
(* classification is modelled next to the current one.                     *)
(***************************************************************************)
EXTENDS Integers, Sequences, FiniteSets, TLC

(***************************************************************************)
(* Bounds of the model.                                                    *)
(***************************************************************************)
MaxWorkers == 2        \* largest numWorkers handed to Start (lifecycle runs)
MaxStartCalls == 2     \* number of Start calls made by the callers
LifeMsgs == 1          \* messages in the queue (lifecycle runs)
LoopWorkers == 1       \* largest numWorkers handed to Start (worker-loop runs)
NumMsgs == 2           \* messages in the queue (worker-loop runs)
MaxBatch == 2          \* most messages one ReceiveMessage returns
MaxClock == 2          \* latest instant at which a dispatcher is called
MaxLate == 2           \* ReceiveMessage calls counted after the shutdown flag is set

\* runtime.NumCPU() of the machine the Director runs on
NumCPU == 2

VARIABLES
    sys,        \* which program runs: "supervisor", "director" or "dispatch"
    rev,        \* revision of the Supervisor source that runs
    started,    \* Supervisor.startOnce is done / Director.started
    shutdown,   \* Supervisor.shutdown / Director.ctx is cancelled
    wg,         \* counter of the sync.WaitGroup
    crashed,    \* the process died of an unrecovered panic
    workers,    \* sequence of the worker goroutines launched so far
    visible,    \* ids of the messages a ReceiveMessage can return
    waitPc,     \* position of the goroutine that calls Wait
    now,        \* the clock, in whole seconds
    env,        \* the surroundings: the answers the endpoint gives, the
                \* arguments the callers pass to Start, the messages sent
    call,       \* the last call of a dispatcher made on its own
    hist        \* history of the lifecycle calls (observation only)

vars == <<sys, rev, started, shutdown, wg, crashed, workers, visible, waitPc, now, env,
          call, hist>>

(***************************************************************************)
(* Messages and HTTP responses.                                            *)
(***************************************************************************)
MsgIds == env.msgs

\* one sqs.Message as the worker uses it: MessageId and ReceiptHandle
Message(id) == [MessageId |-> id, ReceiptHandle |-> 100 + id]

\* Retry-After header values, as strings of characters; <<>> is "no header"
NoHeader == <<>>
DigitChars == <<"0", "1", "2", "3", "4", "5", "6", "7", "8", "9">>

IsDigit(c) == \E d \in 1..10 : DigitChars[d] = c

DigitVal(c) == (CHOOSE d \in 1..10 : DigitChars[d] = c) - 1

RECURSIVE DigitsValue(_, _)
DigitsValue(s, acc) ==
    IF s = <<>> THEN acc
    ELSE DigitsValue(Tail(s), acc * 10 + DigitVal(Head(s)))

\* strconv.ParseInt(s, 10, 0): optional sign, then one or more decimal digits
\* (the headers of the model are short, so the int64 range error cannot occur)
ParseInt(s) ==
    LET signed == s # <<>> /\ Head(s) \in {"+", "-"}
        digits == IF signed THEN Tail(s) ELSE s
        neg    == signed /\ Head(s) = "-"
    IN  IF digits = <<>> \/ \E k \in 1..Len(digits) : ~IsDigit(digits[k])
        THEN [ok |-> FALSE, val |-> 0]
        ELSE LET v == DigitsValue(digits, 0)
             IN  [ok |-> TRUE, val |-> IF neg THEN 0 - v ELSE v]

\* time.Parse(time.RFC1123, s): a date is written <<"Mon,", d1, d2, ...>>,
\* the digits giving the instant in whole seconds
ParseRFC1123(s) ==
    IF Len(s) >= 2 /\ Head(s) = "Mon," /\ \A k \in 2..Len(s) : IsDigit(s[k])
    THEN [ok |-> TRUE, val |-> DigitsValue(Tail(s), 0)]
    ELSE [ok |-> FALSE, val |-> 0]

\* an HTTP exchange: a transport error / timeout, or a response
TransportError == [err |-> TRUE, StatusCode |-> 0, RetryAfter |-> NoHeader]
Response(s, h) == [err |-> FALSE, StatusCode |-> s, RetryAfter |-> h]

StatusOK == 200
StatusIMUsed == 226
StatusTooManyRequests == 429

(***************************************************************************)
(* supervisor.go: the dispatcher of the current Supervisor.                *)
(***************************************************************************)
\* the three dynamic types httpRequest returns
DeleteMessage == [type |-> "DeleteMessage", val |-> 0]
ChangeVisibility(t) == [type |-> "ChangeVisibility", val |-> t]
Error == [type |-> "error", val |-> 0]

\* mutant of getAwaitTimeFromHeader: a header that cannot be read counts as a
\* delay of zero seconds
getAwaitTimeFromHeaderDefault(res, clock) ==
    LET seconds == ParseInt(res.RetryAfter)
        parsedTime == ParseRFC1123(res.RetryAfter)
    IN  IF seconds.ok THEN seconds
        ELSE IF ~parsedTime.ok THEN [ok |-> TRUE, val |-> 0]
        ELSE [ok |-> TRUE, val |-> parsedTime.val - clock]

\* getAwaitTimeFromHeader(res): integer seconds, else an RFC-1123 date turned
\* into int64(time.Until(date).Seconds()); clock is the current time
getAwaitTimeFromHeader(res, clock) ==
    IF res.RetryAfter = NoHeader THEN [ok |-> FALSE, val |-> 0]
    ELSE LET seconds == ParseInt(res.RetryAfter)
             parsedTime == ParseRFC1123(res.RetryAfter)
         IN  IF seconds.ok THEN seconds
             ELSE IF ~parsedTime.ok THEN [ok |-> FALSE, val |-> 0]
             ELSE [ok |-> TRUE, val |-> parsedTime.val - clock]

\* mutant of httpRequest: the Retry-After header is read for every status
\* outside 200..226, not for 429 alone
httpRequestAnyStatus(res, clock) ==
    IF res.err THEN Error
    ELSE IF res.StatusCode < StatusOK \/ res.StatusCode > StatusIMUsed
    THEN LET waitTime == getAwaitTimeFromHeader(res, clock)
         IN  IF ~waitTime.ok THEN Error ELSE ChangeVisibility(waitTime.val)
    ELSE DeleteMessage

\* mutant of httpRequest: the range test written with `&&`, which no status meets
httpRequestAndBug(res, clock) ==
    IF res.err THEN Error
    ELSE IF res.StatusCode < StatusOK /\ res.StatusCode > StatusIMUsed
    THEN IF res.StatusCode = StatusTooManyRequests
         THEN LET waitTime == getAwaitTimeFromHeader(res, clock)
              IN  IF ~waitTime.ok THEN Error ELSE ChangeVisibility(waitTime.val)
         ELSE Error
    ELSE DeleteMessage

\* Supervisor.httpRequest, from the answer of httpClient.Do on
httpRequest(res, clock) ==
    IF res.err THEN Error
    ELSE IF res.StatusCode < StatusOK \/ res.StatusCode > StatusIMUsed
    THEN IF res.StatusCode = StatusTooManyRequests
         THEN LET waitTime == getAwaitTimeFromHeader(res, clock)
              IN  IF ~waitTime.ok THEN Error ELSE ChangeVisibility(waitTime.val)
         ELSE Error
    ELSE DeleteMessage

(***************************************************************************)
(* The queue, as the workers see it through sqsiface.SQSAPI.               *)
(***************************************************************************)
\* the answers the HTTP endpoint gives in the worker-loop runs
WorkerResponses ==
    {TransportError}
    \cup {Response(s, NoHeader) : s \in {199, 200, 226, 227, 429, 500}}
    \cup {Response(s, <<"3">>) : s \in {429, 503}}
    \cup {Response(429, <<"Mon,", "7">>)}

\* the answers the HTTP endpoint gives in the lifecycle runs
LifecycleResponses ==
    {TransportError, Response(200, NoHeader), Response(429, <<"3">>)}

\* surroundings of the lifecycle runs and of the worker-loop runs
LifecycleEnv ==
    [responses |-> LifecycleResponses, startArgs |-> (0 - 1)..MaxWorkers,
     msgs |-> 1..LifeMsgs]

LoopEnv ==
    [responses |-> WorkerResponses, startArgs |-> 1..LoopWorkers, msgs |-> 1..NumMsgs]

\* sequences without repetition of at most n elements of S
DistinctSeqs(S, n) ==
    {q \in UNION {[1..k -> S] : k \in 0..n} :
        \A a, b \in 1..Len(q) : a # b => q[a] # q[b]}

\* what ReceiveMessage can return: an error, or up to MaxBatch visible messages
ReceiveOutputs ==
    {[err |-> TRUE, Messages |-> <<>>]}
    \cup {[err |-> FALSE, Messages |-> [k \in 1..Len(q) |-> Message(q[k])]] :
            q \in DistinctSeqs(visible, MaxBatch)}

\* a goroutine that has just been launched; seen tells whether the write of
\* the shutdown flag is visible to it
NewWorker(pc, seen) ==
    [pc |-> pc, seen |-> seen, batch |-> <<>>, resps |-> <<>>,
     deleteEntries |-> <<>>, changeVisibilityEntries |-> <<>>,
     fails |-> 0, calls |-> <<>>, retry |-> <<>>, late |-> 0]

\* mutant of Iteration: the delete entries of the iteration that ended stay
\* in the slice
IterationKeepsEntries(wk, pc, seen) ==
    [NewWorker(pc, seen) EXCEPT !.late = wk.late, !.deleteEntries = wk.deleteEntries]

\* the worker at the head of its loop: the locals of the iteration are gone;
\* late, the number of ReceiveMessage calls wk began after the shutdown flag
\* was set (counted up to MaxLate), is kept
Iteration(wk, pc, seen) == [NewWorker(pc, seen) EXCEPT !.late = wk.late]

\* wk begins a ReceiveMessage call
BeginReceive(wk) ==
    [wk EXCEPT !.late = IF shutdown /\ @ < MaxLate THEN @ + 1 ELSE @]

Launched == 1..Len(workers)

\* program s runs and has not died of a panic
Alive(s) == sys = s /\ ~crashed

Running(w) == workers[w].pc \notin {"spawned", "done"}

\* ids of the messages of w's batch that a successful DeleteMessageBatch removed
DeletedIds(wk) ==
    UNION {{wk.calls[k].entries[j].Id : j \in 1..Len(wk.calls[k].entries)} :
            k \in {c \in 1..Len(wk.calls) : wk.calls[c].op = "delete" /\ ~wk.calls[c].err}}

BatchIds(wk) == {wk.batch[k].MessageId : k \in 1..Len(wk.batch)}

Call(op, entries, err) == [op |-> op, entries |-> entries, err |-> err]

(***************************************************************************)
(* supervisor.go: lifecycle of the Supervisor.                             *)
(***************************************************************************)
StartArgs == env.startArgs

NoteStart(n, returned) ==
    [hist EXCEPT !.startCalls = @ + 1,
                 !.firstN = IF @ = <<>> THEN <<n>> ELSE @,
                 !.startReturned = @ \/ returned,
                 !.shutdownFirst = IF hist.firstN = <<>> THEN shutdown ELSE @]

\* mutant of SupStart: the goroutines are launched without wg.Add(numWorkers)
SupStartNoAdd(n) ==
    /\ Alive("supervisor")
    /\ hist.startCalls < MaxStartCalls
    /\ IF started
       THEN UNCHANGED <<started, workers>>
       ELSE /\ started' = TRUE
            /\ workers' = workers \o
                    [k \in 1..(IF n < 0 THEN 0 ELSE n) |-> NewWorker("head", shutdown)]
    /\ hist' = NoteStart(n, TRUE)
    /\ UNCHANGED <<sys, rev, shutdown, wg, crashed, visible, waitPc, now, env, call>>

\* mutant of SupStart: the goroutines do not see a flag set before Start
SupStartStale(n) ==
    /\ Alive("supervisor")
    /\ hist.startCalls < MaxStartCalls
    /\ IF started
       THEN /\ hist' = NoteStart(n, TRUE)
            /\ UNCHANGED <<started, wg, crashed, workers>>
       ELSE /\ started' = TRUE
            /\ IF wg + n < 0
               THEN /\ crashed' = TRUE
                    /\ hist' = NoteStart(n, FALSE)
                    /\ UNCHANGED <<wg, workers>>
               ELSE /\ wg' = wg + n
                    /\ workers' = workers \o [k \in 1..n |-> NewWorker("head", FALSE)]
                    /\ hist' = NoteStart(n, TRUE)
                    /\ UNCHANGED crashed
    /\ UNCHANGED <<sys, rev, shutdown, visible, waitPc, now, env, call>>

\* Supervisor.Start(numWorkers): startOnce.Do runs the body once; wg.Add
\* panics when the counter would become negative
SupStart(n) ==
    /\ Alive("supervisor")
    /\ hist.startCalls < MaxStartCalls
    /\ IF started
       THEN /\ hist' = NoteStart(n, TRUE)
            /\ UNCHANGED <<started, wg, crashed, workers>>
       ELSE /\ started' = TRUE
            /\ IF wg + n < 0
               THEN /\ crashed' = TRUE
                    /\ hist' = NoteStart(n, FALSE)
                    /\ UNCHANGED <<wg, workers>>
               ELSE /\ wg' = wg + n
                    /\ workers' = workers \o [k \in 1..n |-> NewWorker("head", shutdown)]
                    /\ hist' = NoteStart(n, TRUE)
                    /\ UNCHANGED crashed
    /\ UNCHANGED <<sys, rev, shutdown, visible, waitPc, now, env, call>>

\* Supervisor.Wait: the call, which blocks in wg.Wait
SupWaitCall ==
    /\ Alive("supervisor")
    /\ waitPc # "waiting"
    /\ waitPc' = "waiting"
    /\ hist' = [hist EXCEPT !.waitAfterStart = hist.startReturned]
    /\ UNCHANGED <<sys, rev, started, shutdown, wg, crashed, workers, visible, now, env, call>>

\* Supervisor.Wait: wg.Wait returns once the counter is zero
SupWaitReturn ==
    /\ Alive("supervisor")
    /\ waitPc = "waiting"
    /\ wg = 0
    /\ waitPc' = "returned"
    /\ UNCHANGED <<sys, rev, started, shutdown, wg, crashed, workers, visible, now, env, call, hist>>

\* mutant of SupShutdown: the call flips the flag instead of setting it
SupShutdownToggle(by) ==
    /\ Alive("supervisor")
    /\ by = 0 \/ (by \in Launched /\ Running(by))
    /\ shutdown' = ~shutdown
    /\ workers' = IF by = 0 THEN workers ELSE [workers EXCEPT ![by].seen = TRUE]
    /\ UNCHANGED <<sys, rev, started, wg, crashed, visible, waitPc, now, env, call, hist>>

\* Supervisor.Shutdown, called by goroutine by: 0 is a goroutine outside the
\* pool, w > 0 is worker w calling it from inside a queue callback
SupShutdown(by) ==
    /\ Alive("supervisor")
    /\ by = 0 \/ (by \in Launched /\ Running(by))
    /\ shutdown' = TRUE
    /\ workers' = IF by = 0 THEN workers ELSE [workers EXCEPT ![by].seen = TRUE]
    /\ UNCHANGED <<sys, rev, started, wg, crashed, visible, waitPc, now, env, call, hist>>

\* the write of s.shutdown becomes visible to worker w, which reads the flag
\* without holding the mutex
SupFlagVisible(w) ==
    /\ Alive("supervisor")
    /\ w \in Launched
    /\ shutdown /\ ~workers[w].seen
    /\ workers' = [workers EXCEPT ![w].seen = TRUE]
    /\ UNCHANGED <<sys, rev, started, shutdown, wg, crashed, visible, waitPc, now, env, call, hist>>

(***************************************************************************)
(* supervisor.go: the worker loop of the Supervisor.                       *)
(***************************************************************************)
\* the entries the loop appends for message msg
DeleteEntry(msg) == [Id |-> msg.MessageId, ReceiptHandle |-> msg.ReceiptHandle]

ChangeVisibilityEntry(msg, t) ==
    [Id |-> msg.MessageId, ReceiptHandle |-> msg.ReceiptHandle, VisibilityTimeout |-> t]

\* mutant of SupWorkerHead: the loop never tests the flag
SupWorkerHeadNoExit(w) ==
    /\ Alive("supervisor")
    /\ w \in Launched
    /\ workers[w].pc = "head"
    /\ workers' = [workers EXCEPT ![w] = Iteration(@, "receive", workers[w].seen)]
    /\ UNCHANGED <<sys, rev, started, shutdown, wg, crashed, visible, waitPc, now, env,
                   call, hist>>

\* loop head: `if s.shutdown { return }`, with the deferred wg.Done; the
\* locals of the iteration that ended go out of scope
SupWorkerHead(w) ==
    /\ Alive("supervisor")
    /\ w \in Launched
    /\ workers[w].pc = "head"
    /\ IF workers[w].seen
       THEN /\ workers' = [workers EXCEPT ![w] = Iteration(@, "done", TRUE)]
            /\ wg' = wg - 1
       ELSE /\ workers' = [workers EXCEPT ![w] = Iteration(@, "receive", FALSE)]
            /\ UNCHANGED wg
    /\ UNCHANGED <<sys, rev, started, shutdown, crashed, visible, waitPc, now, env, call, hist>>

\* mutant of SupWorkerReceive: an error of ReceiveMessage ends the worker
SupWorkerReceiveExitOnError(w) ==
    /\ Alive("supervisor")
    /\ w \in Launched
    /\ workers[w].pc = "receive"
    /\ \E output \in ReceiveOutputs :
         /\ workers' = [workers EXCEPT ![w] =
                IF output.err THEN Iteration(@, "done", @.seen)
                ELSE [BeginReceive(@) EXCEPT
                               !.pc = IF Len(output.Messages) = 0 THEN "head" ELSE "dispatch",
                               !.batch = output.Messages,
                               !.calls = <<Call("receive", <<>>, output.err)>>]]
         /\ wg' = IF output.err THEN wg - 1 ELSE wg
         /\ visible' = visible \ {output.Messages[k].MessageId : k \in 1..Len(output.Messages)}
    /\ UNCHANGED <<sys, rev, started, shutdown, crashed, waitPc, now, env, call, hist>>

\* s.sqs.ReceiveMessage and the two `continue`s that follow it
SupWorkerReceive(w) ==
    /\ Alive("supervisor")
    /\ w \in Launched
    /\ workers[w].pc = "receive"
    /\ \E output \in ReceiveOutputs :
         /\ workers' = [workers EXCEPT ![w] =
                [BeginReceive(@) EXCEPT
                    !.pc = IF output.err \/ Len(output.Messages) = 0
                           THEN "head" ELSE "dispatch",
                    !.batch = output.Messages,
                    !.calls = <<Call("receive", <<>>, output.err)>>]]
         /\ visible' = visible \ {output.Messages[k].MessageId : k \in 1..Len(output.Messages)}
    /\ UNCHANGED <<sys, rev, started, shutdown, wg, crashed, waitPc, now, env, call, hist>>

\* mutant of SupDispatchOne: a message to delete is deleted at once, by a
\* DeleteMessageBatch of its own, before the next message is POSTed
SupDispatchOneEagerDelete(wk, res) ==
    LET msg == wk.batch[Len(wk.resps) + 1]
        result == httpRequest(res, now)
        posted == [wk EXCEPT !.resps = Append(@, res),
                             !.calls = Append(@, Call("post", <<msg.MessageId>>, res.err)),
                             !.pc = IF Len(wk.resps) + 1 = Len(wk.batch)
                                    THEN "delete" ELSE "dispatch"]
    IN  CASE result.type = "DeleteMessage" ->
                [posted EXCEPT !.calls = Append(@, Call("delete", <<DeleteEntry(msg)>>, FALSE))]
          [] result.type = "ChangeVisibility" ->
                [posted EXCEPT !.changeVisibilityEntries =
                                    Append(@, ChangeVisibilityEntry(msg, result.val))]
          [] OTHER -> [posted EXCEPT !.fails = @ + 1]

\* mutant of SupDispatchOne: a message answered 429 with a readable
\* Retry-After is POSTed a second time at once
SupDispatchOneRepost(wk, res) ==
    LET msg == wk.batch[Len(wk.resps) + 1]
        result == httpRequest(res, now)
        posted == [wk EXCEPT !.resps = Append(@, res),
                             !.calls = Append(@, Call("post", <<msg.MessageId>>, res.err)),
                             !.pc = IF Len(wk.resps) + 1 = Len(wk.batch)
                                    THEN "delete" ELSE "dispatch"]
    IN  CASE result.type = "DeleteMessage" ->
                [posted EXCEPT !.deleteEntries = Append(@, DeleteEntry(msg))]
          [] result.type = "ChangeVisibility" ->
                [posted EXCEPT !.changeVisibilityEntries =
                                    Append(@, ChangeVisibilityEntry(msg, result.val)),
                               !.calls = Append(@, Call("post", <<msg.MessageId>>, res.err))]
          [] OTHER -> [posted EXCEPT !.fails = @ + 1]

\* mutant of SupDispatchOne: the ChangeVisibility case falls through into the
\* DeleteMessage case
SupDispatchOneFallThrough(wk, res) ==
    LET msg == wk.batch[Len(wk.resps) + 1]
        result == httpRequest(res, now)
        posted == [wk EXCEPT !.resps = Append(@, res),
                             !.calls = Append(@, Call("post", <<msg.MessageId>>, res.err)),
                             !.pc = IF Len(wk.resps) + 1 = Len(wk.batch)
                                    THEN "delete" ELSE "dispatch"]
    IN  CASE result.type = "DeleteMessage" ->
                [posted EXCEPT !.deleteEntries = Append(@, DeleteEntry(msg))]
          [] result.type = "ChangeVisibility" ->
                [posted EXCEPT !.changeVisibilityEntries =
                                    Append(@, ChangeVisibilityEntry(msg, result.val)),
                               !.deleteEntries = Append(@, DeleteEntry(msg))]
          [] OTHER -> [posted EXCEPT !.fails = @ + 1]

\* mutant of SupDispatchOne: the delete entries are collected newest first
SupDispatchOnePrepend(wk, res) ==
    LET msg == wk.batch[Len(wk.resps) + 1]
        result == httpRequest(res, now)
        posted == [wk EXCEPT !.resps = Append(@, res),
                             !.calls = Append(@, Call("post", <<msg.MessageId>>, res.err)),
                             !.pc = IF Len(wk.resps) + 1 = Len(wk.batch)
                                    THEN "delete" ELSE "dispatch"]
    IN  CASE result.type = "DeleteMessage" ->
                [posted EXCEPT !.deleteEntries = <<DeleteEntry(msg)>> \o @]
          [] result.type = "ChangeVisibility" ->
                [posted EXCEPT !.changeVisibilityEntries =
                                    Append(@, ChangeVisibilityEntry(msg, result.val))]
          [] OTHER -> [posted EXCEPT !.fails = @ + 1]

\* one pass of `for _, msg := range output.Messages`: the POST and the type
\* switch on its result
SupDispatchOne(wk, res) ==
    LET msg == wk.batch[Len(wk.resps) + 1]
        result == httpRequest(res, now)
        posted == [wk EXCEPT !.resps = Append(@, res),
                             !.calls = Append(@, Call("post", <<msg.MessageId>>, res.err)),
                             !.pc = IF Len(wk.resps) + 1 = Len(wk.batch)
                                    THEN "delete" ELSE "dispatch"]
    IN  CASE result.type = "DeleteMessage" ->
                [posted EXCEPT !.deleteEntries = Append(@, DeleteEntry(msg))]
          [] result.type = "ChangeVisibility" ->
                [posted EXCEPT !.changeVisibilityEntries =
                                    Append(@, ChangeVisibilityEntry(msg, result.val))]
          [] OTHER -> [posted EXCEPT !.fails = @ + 1]

\* mutant of SupWorkerDispatch: the dispatcher itself returns the message to
\* the queue when the POST fails
SupWorkerDispatchRequeues(w) ==
    /\ Alive("supervisor")
    /\ rev = "current"
    /\ w \in Launched
    /\ workers[w].pc = "dispatch"
    /\ \E res \in env.responses :
         /\ workers' = [workers EXCEPT ![w] = SupDispatchOne(@, res)]
         /\ visible' = IF res.err
                       THEN visible \cup
                            {workers[w].batch[Len(workers[w].resps) + 1].MessageId}
                       ELSE visible
    /\ UNCHANGED <<sys, rev, started, shutdown, wg, crashed, waitPc, now, env, call, hist>>

SupWorkerDispatch(w) ==
    /\ Alive("supervisor")
    /\ rev = "current"
    /\ w \in Launched
    /\ workers[w].pc = "dispatch"
    /\ \E res \in env.responses :
         workers' = [workers EXCEPT ![w] = SupDispatchOne(@, res)]
    /\ UNCHANGED <<sys, rev, started, shutdown, wg, crashed, visible, waitPc, now, env, call, hist>>

\* mutant of SubmitDelete: an error of DeleteMessageBatch makes the worker
\* `continue`, past the change-visibility batch
SubmitDeleteAbortOnError(wk, err) ==
    IF Len(wk.deleteEntries) > 0
    THEN [wk EXCEPT !.pc = IF err THEN "head" ELSE "changevis",
                    !.calls = Append(@, Call("delete", wk.deleteEntries, err))]
    ELSE [wk EXCEPT !.pc = "changevis"]

\* mutant of SubmitDelete: DeleteMessageBatch is called without the test of
\* len(deleteEntries)
SubmitDeleteAlways(wk, err) ==
    [wk EXCEPT !.pc = "changevis",
               !.calls = Append(@, Call("delete", wk.deleteEntries, err))]

\* `if len(deleteEntries) > 0 { s.sqs.DeleteMessageBatch(...) }`; an error of
\* the call is logged
SubmitDelete(wk, err) ==
    IF Len(wk.deleteEntries) > 0
    THEN [wk EXCEPT !.pc = "changevis",
                    !.calls = Append(@, Call("delete", wk.deleteEntries, err))]
    ELSE [wk EXCEPT !.pc = "changevis"]

SupWorkerDelete(w) ==
    /\ Alive("supervisor")
    /\ w \in Launched
    /\ workers[w].pc = "delete"
    /\ \E err \in BOOLEAN :
         workers' = [workers EXCEPT ![w] = SubmitDelete(@, err)]
    /\ UNCHANGED <<sys, rev, started, shutdown, wg, crashed, visible, waitPc, now, env, call, hist>>

\* `if len(changeVisibilityEntries) > 0 { s.sqs.ChangeMessageVisibilityBatch(...) }`
\* and the jump back to the loop head
SubmitChangeVisibility(wk, err) ==
    IF Len(wk.changeVisibilityEntries) > 0
    THEN [wk EXCEPT !.pc = "head",
                    !.calls = Append(@, Call("changevis", wk.changeVisibilityEntries, err))]
    ELSE [wk EXCEPT !.pc = "head"]

\* the messages of the batch that were not deleted become visible again
Redeliver(wk) == visible \cup (BatchIds(wk) \ DeletedIds(wk))

SupWorkerChangeVisibility(w) ==
    /\ Alive("supervisor")
    /\ w \in Launched
    /\ workers[w].pc = "changevis"
    /\ \E err \in BOOLEAN :
         workers' = [workers EXCEPT ![w] = SubmitChangeVisibility(@, err)]
    /\ visible' = Redeliver(workers[w])
    /\ UNCHANGED <<sys, rev, started, shutdown, wg, crashed, waitPc, now, env, call, hist>>

\* a producer puts a deleted message into the queue again
SendMessage(id) ==
    /\ ~crashed
    /\ id \in MsgIds \ visible
    /\ \A w \in Launched : id \notin BatchIds(workers[w])
    /\ visible' = visible \cup {id}
    /\ UNCHANGED <<sys, rev, started, shutdown, wg, crashed, workers, waitPc, now, env, call, hist>>

(***************************************************************************)
(* src/unnamed/part_007: the revision of the Supervisor whose worker loop   *)
(* classifies the response itself and reads Retry-After as seconds only.   *)
(***************************************************************************)
\* getRetryAfterFromResponse of that revision: (seconds, error)
getRetryAfterFromResponse007(res) ==
    IF Len(res.RetryAfter) = 0 THEN [ok |-> FALSE, val |-> 0]
    ELSE ParseInt(res.RetryAfter)

\* mutant of SupDispatchOne007: no `continue` after the change-visibility
\* entry, so that the message is put into the delete batch as well
SupDispatchOne007NoContinue(wk, res) ==
    LET msg == wk.batch[Len(wk.resps) + 1]
        posted == [wk EXCEPT !.resps = Append(@, res),
                             !.calls = Append(@, Call("post", <<msg.MessageId>>, res.err)),
                             !.pc = IF Len(wk.resps) + 1 = Len(wk.batch)
                                    THEN "delete" ELSE "dispatch"]
        failed == [posted EXCEPT !.fails = @ + 1]
    IN  IF res.err THEN failed
        ELSE IF res.StatusCode < StatusOK \/ res.StatusCode > StatusIMUsed
        THEN IF res.StatusCode = StatusTooManyRequests
             THEN LET sec == getRetryAfterFromResponse007(res)
                  IN  IF ~sec.ok THEN failed
                      ELSE [posted EXCEPT !.changeVisibilityEntries =
                                    Append(@, ChangeVisibilityEntry(msg, sec.val)),
                                          !.deleteEntries = Append(@, DeleteEntry(msg))]
             ELSE failed
        ELSE [posted EXCEPT !.deleteEntries = Append(@, DeleteEntry(msg))]

\* one pass of the range loop of that revision
SupDispatchOne007(wk, res) ==
    LET msg == wk.batch[Len(wk.resps) + 1]
        posted == [wk EXCEPT !.resps = Append(@, res),
                             !.calls = Append(@, Call("post", <<msg.MessageId>>, res.err)),
                             !.pc = IF Len(wk.resps) + 1 = Len(wk.batch)
                                    THEN "delete" ELSE "dispatch"]
        failed == [posted EXCEPT !.fails = @ + 1]
    IN  IF res.err THEN failed
        ELSE IF res.StatusCode < StatusOK \/ res.StatusCode > StatusIMUsed
        THEN IF res.StatusCode = StatusTooManyRequests
             THEN LET sec == getRetryAfterFromResponse007(res)
                  IN  IF ~sec.ok THEN failed
                      ELSE [posted EXCEPT !.changeVisibilityEntries =
                                    Append(@, ChangeVisibilityEntry(msg, sec.val))]
             ELSE failed
        ELSE [posted EXCEPT !.deleteEntries = Append(@, DeleteEntry(msg))]

SupWorkerDispatch007(w) ==
    /\ Alive("supervisor")
    /\ rev = "r007"
    /\ w \in Launched
    /\ workers[w].pc = "dispatch"
    /\ \E res \in env.responses :
         workers' = [workers EXCEPT ![w] = SupDispatchOne007(@, res)]
    /\ UNCHANGED <<sys, rev, started, shutdown, wg, crashed, visible, waitPc, now, env, call, hist>>

(***************************************************************************)
(* src/unnamed/part_008 (package sqshttp): the dispatcher of the Director. *)
(***************************************************************************)
\* getRetryAfterFromResponse of sqshttp: the seconds, 0 when absent or unparsable
getRetryAfterFromResponse(res) ==
    IF Len(res.RetryAfter) = 0 THEN 0
    ELSE LET seconds == ParseInt(res.RetryAfter)
         IN  IF ~seconds.ok THEN 0 ELSE seconds.val

\* `successful := res.StatusCode >= http.StatusOK || res.StatusCode <= http.StatusIMUsed`
Successful(statusCode) == statusCode >= StatusOK \/ statusCode <= StatusIMUsed

\* Client.Request, from the answer of httpClient.Do on: (*Result, error)
Request(res) ==
    IF res.err
    THEN [err |-> TRUE, StatusCode |-> 0, Successful |-> FALSE, RetryAfterSec |-> 0]
    ELSE [err |-> FALSE,
          StatusCode |-> res.StatusCode,
          Successful |-> Successful(res.StatusCode),
          RetryAfterSec |-> getRetryAfterFromResponse(res)]

(***************************************************************************)
(* sqsworker.go: the Director.                                             *)
(***************************************************************************)
\* mutant of DirStart: d.started is not tested
DirStartNoGuard(n) ==
    /\ Alive("director")
    /\ hist.startCalls < MaxStartCalls
    /\ started' = TRUE
    /\ workers' = workers \o
            [k \in 1..(IF n <= 0 THEN NumCPU ELSE n) |-> NewWorker("spawned", FALSE)]
    /\ hist' = NoteStart(n, TRUE)
    /\ UNCHANGED <<sys, rev, shutdown, wg, crashed, visible, waitPc, now, env, call>>

\* Director.Start(n) under d.mu: an error when already started, else n (or
\* NumCPU) goroutines, each of which will do its own wg.Add(1)
DirStart(n) ==
    /\ Alive("director")
    /\ hist.startCalls < MaxStartCalls
    /\ IF started
       THEN UNCHANGED <<started, workers>>
       ELSE /\ started' = TRUE
            /\ workers' = workers \o
                    [k \in 1..(IF n <= 0 THEN NumCPU ELSE n) |-> NewWorker("spawned", FALSE)]
    /\ hist' = NoteStart(n, TRUE)
    /\ UNCHANGED <<sys, rev, shutdown, wg, crashed, visible, waitPc, now, env, call>>

\* Director.Wait: the call, which blocks in wg.Wait
DirWaitCall ==
    /\ Alive("director")
    /\ waitPc # "waiting"
    /\ waitPc' = "waiting"
    /\ hist' = [hist EXCEPT !.waitAfterStart = hist.startReturned]
    /\ UNCHANGED <<sys, rev, started, shutdown, wg, crashed, workers, visible, now, env, call>>

\* Director.Wait: wg.Wait returns once the counter is zero
DirWaitReturn ==
    /\ Alive("director")
    /\ waitPc = "waiting"
    /\ wg = 0
    /\ waitPc' = "returned"
    /\ UNCHANGED <<sys, rev, started, shutdown, wg, crashed, workers, visible, now, env, call, hist>>

\* Director.Shutdown: d.canc() under d.mu closes ctx.Done()
DirShutdown ==
    /\ Alive("director")
    /\ shutdown' = TRUE
    /\ UNCHANGED <<sys, rev, started, wg, crashed, workers, visible, waitPc, now, env, call, hist>>

\* the first statements of Director.worker: d.wg.Add(1)
DirWorkerBegin(w) ==
    /\ Alive("director")
    /\ w \in Launched
    /\ workers[w].pc = "spawned"
    /\ wg' = wg + 1
    /\ workers' = [workers EXCEPT ![w].pc = "head"]
    /\ UNCHANGED <<sys, rev, started, shutdown, crashed, visible, waitPc, now, env, call, hist>>

\* loop head: `select { case <-d.ctx.Done(): d.wg.Done(); return; default: ... }`
DirWorkerHead(w) ==
    /\ Alive("director")
    /\ w \in Launched
    /\ workers[w].pc = "head"
    /\ IF shutdown
       THEN /\ workers' = [workers EXCEPT ![w] = Iteration(@, "done", FALSE)]
            /\ wg' = wg - 1
       ELSE /\ workers' = [workers EXCEPT ![w] = Iteration(@, "receive", FALSE)]
            /\ UNCHANGED wg
    /\ UNCHANGED <<sys, rev, started, shutdown, crashed, visible, waitPc, now, env, call, hist>>

\* d.sqs.ReceiveMessage and the two `continue`s that follow it
DirWorkerReceive(w) ==
    /\ Alive("director")
    /\ w \in Launched
    /\ workers[w].pc = "receive"
    /\ \E output \in ReceiveOutputs :
         /\ workers' = [workers EXCEPT ![w] =
                [BeginReceive(@) EXCEPT
                    !.pc = IF output.err \/ Len(output.Messages) = 0
                           THEN "head" ELSE "dispatch",
                    !.batch = output.Messages,
                    !.calls = <<Call("receive", <<>>, output.err)>>]]
         /\ visible' = visible \ {output.Messages[k].MessageId : k \in 1..Len(output.Messages)}
    /\ UNCHANGED <<sys, rev, started, shutdown, wg, crashed, waitPc, now, env, call, hist>>

\* one pass of `for _, msg := range output.Messages` of Director.worker
DirDispatchOne(wk, http) ==
    LET msg == wk.batch[Len(wk.resps) + 1]
        res == Request(http)
        posted == [wk EXCEPT !.resps = Append(@, http),
                             !.calls = Append(@, Call("post", <<msg.MessageId>>, http.err)),
                             !.pc = IF Len(wk.resps) + 1 = Len(wk.batch)
                                    THEN "delete" ELSE "dispatch"]
    IN  IF res.err THEN [posted EXCEPT !.fails = @ + 1]
        ELSE IF ~res.Successful
        THEN IF res.RetryAfterSec > 0
             THEN [posted EXCEPT !.changeVisibilityEntries =
                                    Append(@, ChangeVisibilityEntry(msg, res.RetryAfterSec))]
             ELSE [posted EXCEPT !.fails = @ + 1]
        ELSE [posted EXCEPT !.deleteEntries = Append(@, DeleteEntry(msg))]

DirWorkerDispatch(w) ==
    /\ Alive("director")
    /\ w \in Launched
    /\ workers[w].pc = "dispatch"
    /\ \E http \in env.responses :
         workers' = [workers EXCEPT ![w] = DirDispatchOne(@, http)]
    /\ UNCHANGED <<sys, rev, started, shutdown, wg, crashed, visible, waitPc, now, env, call, hist>>

\* `if len(deleteEntries) > 0 { d.sqs.DeleteMessageBatch(...) }`
DirWorkerDelete(w) ==
    /\ Alive("director")
    /\ w \in Launched
    /\ workers[w].pc = "delete"
    /\ \E err \in BOOLEAN :
         workers' = [workers EXCEPT ![w] = SubmitDelete(@, err)]
    /\ UNCHANGED <<sys, rev, started, shutdown, wg, crashed, visible, waitPc, now, env, call, hist>>

\* `if len(changeVisibilityEntries) > 0 { d.sqs.ChangeMessageVisibilityBatch(...) }`
DirWorkerChangeVisibility(w) ==
    /\ Alive("director")
    /\ w \in Launched
    /\ workers[w].pc = "changevis"
    /\ \E err \in BOOLEAN :
         workers' = [workers EXCEPT ![w] = SubmitChangeVisibility(@, err)]
    /\ visible' = Redeliver(workers[w])
    /\ UNCHANGED <<sys, rev, started, shutdown, wg, crashed, waitPc, now, env, call, hist>>

(***************************************************************************)
(* Specifications: the two worker pools with their callers.                *)
(***************************************************************************)
NoCall == [fn |-> "none", res |-> TransportError, result |-> Error]

InitCommon ==
    /\ visible = env.msgs
    /\ started = FALSE
    /\ shutdown = FALSE
    /\ wg = 0
    /\ crashed = FALSE
    /\ workers = <<>>
    /\ waitPc = "idle"
    /\ call = NoCall
    /\ hist = [startCalls |-> 0, firstN |-> <<>>, startReturned |-> FALSE,
               waitAfterStart |-> FALSE, shutdownFirst |-> FALSE]

\* the programs of the repository: the Supervisor in its current revision and
\* in the one of part_007, and the Director
Programs ==
    {<<"supervisor", "current">>, <<"supervisor", "r007">>, <<"director", "current">>}

InitLife ==
    /\ \E p \in Programs : sys = p[1] /\ rev = p[2]
    /\ env = LifecycleEnv
    /\ now = 0
    /\ InitCommon

InitLoop ==
    /\ \E p \in Programs : sys = p[1] /\ rev = p[2]
    /\ env = LoopEnv
    /\ now = 0
    /\ InitCommon

Next ==
    \/ \E n \in StartArgs : SupStart(n)
    \/ SupWaitCall
    \/ SupWaitReturn
    \/ \E by \in 0..Len(workers) : SupShutdown(by)
    \/ \E w \in Launched : SupFlagVisible(w)
    \/ \E w \in Launched : SupWorkerHead(w)
    \/ \E w \in Launched : SupWorkerReceive(w)
    \/ \E w \in Launched : SupWorkerDispatch(w)
    \/ \E w \in Launched : SupWorkerDispatch007(w)
    \/ \E w \in Launched : SupWorkerDelete(w)
    \/ \E w \in Launched : SupWorkerChangeVisibility(w)
    \/ \E n \in StartArgs : DirStart(n)
    \/ DirWaitCall
    \/ DirWaitReturn
    \/ DirShutdown
    \/ \E w \in Launched : DirWorkerBegin(w)
    \/ \E w \in Launched : DirWorkerHead(w)
    \/ \E w \in Launched : DirWorkerReceive(w)
    \/ \E w \in Launched : DirWorkerDispatch(w)
    \/ \E w \in Launched : DirWorkerDelete(w)
    \/ \E w \in Launched : DirWorkerChangeVisibility(w)
    \/ \E id \in MsgIds : SendMessage(id)

\* the pools with their callers: Start, Shutdown and Wait in any order
Spec == InitLife /\ [][Next]_vars

\* the steps of worker goroutine w
WorkerStep(w) ==
    \/ SupWorkerHead(w)
    \/ SupWorkerReceive(w)
    \/ SupWorkerDispatch(w)
    \/ SupWorkerDispatch007(w)
    \/ SupWorkerDelete(w)
    \/ SupWorkerChangeVisibility(w)
    \/ DirWorkerBegin(w)
    \/ DirWorkerHead(w)
    \/ DirWorkerReceive(w)
    \/ DirWorkerDispatch(w)
    \/ DirWorkerDelete(w)
    \/ DirWorkerChangeVisibility(w)

\* the Go scheduler runs every runnable goroutine, every queue call and
\* every HTTP request returns, a write becomes visible to the other
\* goroutines, and a Wait whose counter is zero returns
Fairness ==
    /\ \A w \in 1..(MaxWorkers + NumCPU) :
            WF_vars(WorkerStep(w)) /\ WF_vars(SupFlagVisible(w))
    /\ WF_vars(SupWaitReturn)
    /\ WF_vars(DirWaitReturn)

FairSpec == Spec /\ Fairness

\* the worker loops against every answer of the endpoint
SpecLoop == InitLoop /\ [][Next]_vars

(***************************************************************************)
(* The dispatchers on their own, over every status and Retry-After value.  *)
(***************************************************************************)
\* src/unnamed/part_006, Supervisor.httpRequest of the first revision: an
\* error, or nil when the status is 200
Nil == [type |-> "nil", val |-> 0]

httpRequest006(res) ==
    IF res.err THEN Error
    ELSE IF res.StatusCode # 200 THEN Error
    ELSE Nil

HeaderValues ==
    {NoHeader, <<"0">>, <<"3">>, <<"-", "5">>, <<"i", "n", "v">>,
     <<"Mon,", "7">>, <<"Mon,", "1">>}

AllResponses ==
    {TransportError} \cup {Response(st, h) : st \in 100..599, h \in HeaderValues}

DispatchEnv == [responses |-> {}, startArgs |-> {}, msgs |-> {}]

\* s.httpRequest(body) of supervisor.go, answered by res
CallHttpRequest(res) ==
    /\ Alive("dispatch")
    /\ call = NoCall
    /\ call' = [fn |-> "httpRequest", res |-> res, result |-> httpRequest(res, now)]
    /\ UNCHANGED <<sys, rev, started, shutdown, wg, crashed, workers, visible, waitPc,
                   now, env, hist>>

\* s.httpRequest(body) of part_006, answered by res
CallHttpRequest006(res) ==
    /\ Alive("dispatch")
    /\ call = NoCall
    /\ call' = [fn |-> "httpRequest006", res |-> res, result |-> httpRequest006(res)]
    /\ UNCHANGED <<sys, rev, started, shutdown, wg, crashed, workers, visible, waitPc,
                   now, env, hist>>

\* c.Request(msg) of sqshttp, answered by res
CallRequest(res) ==
    /\ Alive("dispatch")
    /\ call = NoCall
    /\ call' = [fn |-> "Request", res |-> res, result |-> Request(res)]
    /\ UNCHANGED <<sys, rev, started, shutdown, wg, crashed, workers, visible, waitPc,
                   now, env, hist>>

InitDispatch ==
    /\ sys = "dispatch"
    /\ rev = "current"
    /\ env = DispatchEnv
    /\ now \in 0..MaxClock
    /\ InitCommon

\* a dispatcher is called once, with any answer
Callable == IF call = NoCall THEN AllResponses ELSE {}

NextDispatch ==
    \/ \E res \in Callable : CallHttpRequest(res)
    \/ \E res \in Callable : CallHttpRequest006(res)
    \/ \E res \in Callable : CallRequest(res)

SpecDispatch == InitDispatch /\ [][NextDispatch]_vars

(***************************************************************************)
(* The worker loops against an endpoint that answers 429 with every        *)
(* Retry-After value, at every instant of the clock.                       *)
(***************************************************************************)
RetryResponses ==
    {TransportError}
    \cup {Response(StatusTooManyRequests, h) : h \in HeaderValues}
    \cup {Response(200, NoHeader), Response(500, NoHeader)}
    \cup {Response(200, <<"3">>), Response(503, <<"3">>)}

RetryEnv ==
    [responses |-> RetryResponses, startArgs |-> 1..LoopWorkers, msgs |-> 1..NumMsgs]

InitRetry ==
    /\ \E p \in Programs : sys = p[1] /\ rev = p[2]
    /\ env = RetryEnv
    /\ now \in 0..MaxClock
    /\ InitCommon

SpecRetry == InitRetry /\ [][Next]_vars

(***************************************************************************)
(* The Supervisor revision that honours WorkerConfig.HTTPRetryAfterAttempts.*)
(* Its source is not in the tree; the tests of supervisor_test.go and the  *)
(* caller in src/unnamed/part_008 (lines 461-472) describe it: a message   *)
(* answered 429 with a readable Retry-After is POSTed again after the      *)
(* delay, at most HTTPRetryAfterAttempts times, and the last answer        *)
(* decides what happens to the message.                                    *)
(***************************************************************************)
\* WorkerConfig.HTTPRetryAfterAttempts as TestSupervisorTooManyRequests sets it
HTTPRetryAfterAttempts == 1

\* the re-POSTs recorded for message id: which answer caused it, when it was
\* due and when it was made (-1: the worker still sleeps)
RetriesOf(wk, id) == SelectSeq(wk.retry, LAMBDA r : r.Id = id)

\* one POST of the current message and what the worker does with the answer
SupDispatchOneAttempts(wk, res) ==
    LET msg == wk.batch[Len(wk.resps) + 1]
        result == httpRequest(res, now)
        called == [wk EXCEPT !.calls = Append(@, Call("post", <<msg.MessageId>>, res.err))]
        posted == [called EXCEPT !.resps = Append(@, res),
                                 !.pc = IF Len(wk.resps) + 1 = Len(wk.batch)
                                        THEN "delete" ELSE "dispatch"]
    IN  IF /\ result.type = "ChangeVisibility"
           /\ Len(RetriesOf(wk, msg.MessageId)) < HTTPRetryAfterAttempts
        THEN [called EXCEPT !.pc = "sleep",
                            !.retry = Append(@, [Id |-> msg.MessageId, res |-> res,
                                                 due |-> now + result.val, at |-> 0 - 1])]
        ELSE CASE result.type = "DeleteMessage" ->
                    [posted EXCEPT !.deleteEntries = Append(@, DeleteEntry(msg))]
               [] result.type = "ChangeVisibility" ->
                    [posted EXCEPT !.changeVisibilityEntries =
                                        Append(@, ChangeVisibilityEntry(msg, result.val))]
               [] OTHER -> [posted EXCEPT !.fails = @ + 1]

\* the first POST of the next message of the batch
SupWorkerDispatchAttempts(w) ==
    /\ Alive("supervisor")
    /\ rev = "attempts"
    /\ w \in Launched
    /\ workers[w].pc = "dispatch"
    /\ \E res \in env.responses :
         workers' = [workers EXCEPT ![w] = SupDispatchOneAttempts(@, res)]
    /\ UNCHANGED <<sys, rev, started, shutdown, wg, crashed, visible, waitPc, now, env, call, hist>>

\* mutant of SupWorkerRepost: the message is POSTed again without waiting
SupWorkerRepostNoWait(w) ==
    /\ Alive("supervisor")
    /\ rev = "attempts"
    /\ w \in Launched
    /\ workers[w].pc = "sleep"
    /\ \E res \in env.responses :
         workers' = [workers EXCEPT ![w] =
            SupDispatchOneAttempts([@ EXCEPT !.retry[Len(@.retry)].at = now], res)]
    /\ UNCHANGED <<sys, rev, started, shutdown, wg, crashed, visible, waitPc, now, env, call, hist>>

\* the worker has slept until the delay was over and POSTs the message again
SupWorkerRepost(w) ==
    /\ Alive("supervisor")
    /\ rev = "attempts"
    /\ w \in Launched
    /\ workers[w].pc = "sleep"
    /\ now >= workers[w].retry[Len(workers[w].retry)].due
    /\ \E res \in env.responses :
         workers' = [workers EXCEPT ![w] =
            SupDispatchOneAttempts([@ EXCEPT !.retry[Len(@.retry)].at = now], res)]
    /\ UNCHANGED <<sys, rev, started, shutdown, wg, crashed, visible, waitPc, now, env, call, hist>>

\* a second passes
Tick ==
    /\ Alive("supervisor")
    /\ rev = "attempts"
    /\ now < MaxClock
    /\ now' = now + 1
    /\ UNCHANGED <<sys, rev, started, shutdown, wg, crashed, workers, visible, waitPc, env,
                   call, hist>>

\* the answers of the endpoint of TestSupervisorTooManyRequests and its
\* neighbours: 200, 429 with seconds, with a date, with an unreadable header
AttemptsResponses ==
    {Response(200, NoHeader), Response(500, NoHeader),
     Response(429, <<"1">>), Response(429, <<"Mon,", "2">>),
     Response(429, <<"i", "n", "v">>)}

AttemptsEnv ==
    [responses |-> AttemptsResponses, startArgs |-> 1..LoopWorkers, msgs |-> 1..NumMsgs]

InitAttempts ==
    /\ sys = "supervisor"
    /\ rev = "attempts"
    /\ env = AttemptsEnv
    /\ now = 0
    /\ InitCommon

NextAttempts ==
    \/ \E n \in StartArgs : SupStart(n)
    \/ SupWaitCall
    \/ SupWaitReturn
    \/ \E by \in 0..Len(workers) : SupShutdown(by)
    \/ \E w \in Launched : SupFlagVisible(w)
    \/ \E w \in Launched : SupWorkerHead(w)
    \/ \E w \in Launched : SupWorkerReceive(w)
    \/ \E w \in Launched : SupWorkerDispatchAttempts(w)
    \/ \E w \in Launched : SupWorkerRepost(w)
    \/ \E w \in Launched : SupWorkerDelete(w)
    \/ \E w \in Launched : SupWorkerChangeVisibility(w)
    \/ Tick

SpecAttempts == InitAttempts /\ [][NextAttempts]_vars

(***************************************************************************)
(* The HTTP request a dispatcher builds for a message, up to the call of   *)
(* httpClient.Do.  Strings are strings; the digest of crypto/hmac over     *)
(* sha256 is a term of its key and its input, and encoding/hex writes it   *)
(* in lower-case digits.  Header names are taken in the canonical form     *)
(* http.Header.Set and Add store them in.                                  *)
(***************************************************************************)
\* a nil *string
NilString == [nil |-> TRUE, s |-> ""]

\* aws.String(s)
String(s) == [nil |-> FALSE, s |-> s]

HmacSha256(key, msg) == [alg |-> "HMAC-SHA256", key |-> key, msg |-> msg]
EncodeToString(mac) == [hex |-> "lower-case", of |-> mac]

\* makeHMAC(signature, secretKey); hash.Hash.Write returns no error
makeHMAC(signature, secretKey) == EncodeToString(HmacSha256(secretKey, signature))

\* http.Header: a map from names to values
NoHeaders == [x \in {} |-> ""]
HeaderSet(h, k, v) == [x \in DOMAIN h \cup {k} |-> IF x = k THEN v ELSE h[x]]

\* http.NewRequest returns an error for a URL that url.Parse refuses
BadURL == ":bad"
NewRequestFails(url) == url = BadURL
NewRequest(url, body) == [Method |-> "POST", URL |-> url, Body |-> body, Header |-> NoHeaders]
NoRequest == [Method |-> "", URL |-> "", Body |-> "", Header |-> NoHeaders]

\* what becomes of the call: the request is handed to httpClient.Do, or the
\* function returns an error before that, or the goroutine panics
Sent(req) == [outcome |-> "sent", req |-> req]
NotSent(outcome) == [outcome |-> outcome, req |-> NoRequest]

\* mutant of hmacSignature: the line feed after the URL is left out
hmacSignatureNoNewline(config) == "POST " \o config.HTTPURL

\* NewSupervisor: hmacSignature = fmt.Sprintf("POST %s\n", config.HTTPURL)
hmacSignature(config) == "POST " \o config.HTTPURL \o "\n"

\* mutant of httpRequestBuild: Content-Type is set whatever its value
httpRequestBuildAlwaysTyped(config, body) ==
    IF NewRequestFails(config.HTTPURL) THEN NotSent("error")
    ELSE LET req == NewRequest(config.HTTPURL, body)
             signed ==
                IF Len(config.HMACSecretKey) > 0
                THEN [req EXCEPT !.Header =
                        HeaderSet(@, config.HTTPHMACHeader,
                                  makeHMAC(hmacSignature(config) \o body, config.HMACSecretKey))]
                ELSE req
         IN  Sent([signed EXCEPT !.Header =
                        HeaderSet(@, "Content-Type", config.HTTPContentType)])

\* Supervisor.httpRequest of supervisor.go, up to s.httpClient.Do(req)
httpRequestBuild(config, body) ==
    IF NewRequestFails(config.HTTPURL) THEN NotSent("error")
    ELSE LET req == NewRequest(config.HTTPURL, body)
             signed ==
                IF Len(config.HMACSecretKey) > 0
                THEN [req EXCEPT !.Header =
                        HeaderSet(@, config.HTTPHMACHeader,
                                  makeHMAC(hmacSignature(config) \o body, config.HMACSecretKey))]
                ELSE req
             typed ==
                IF Len(config.HTTPContentType) > 0
                THEN [signed EXCEPT !.Header = HeaderSet(@, "Content-Type", config.HTTPContentType)]
                ELSE signed
         IN  Sent(typed)

\* header.Add("X-Aws-Sqsd-Attr-" + k, *v.StringValue) for every attribute
AttrName(k) == "X-Aws-Sqsd-Attr-" \o k

AddAttributes(h, attrs) ==
    [x \in DOMAIN h \cup {AttrName(k) : k \in DOMAIN attrs} |->
        IF \E k \in DOMAIN attrs : AttrName(k) = x
        THEN attrs[CHOOSE k \in DOMAIN attrs : AttrName(k) = x].s
        ELSE h[x]]

\* an attribute whose StringValue is nil is dereferenced all the same
NilAttribute(attrs) == \E k \in DOMAIN attrs : attrs[k] = NilString

\* Supervisor.httpRequest of part_007, up to s.httpClient.Do(req); the error
\* of http.NewRequest is tested after req.Header has been used
httpRequestBuild007(config, msg) ==
    IF NewRequestFails(config.HTTPURL) THEN NotSent("panic")
    ELSE IF NilAttribute(msg.MessageAttributes) THEN NotSent("panic")
    ELSE LET req == NewRequest(config.HTTPURL, msg.Body)
             named == [req EXCEPT !.Header =
                        AddAttributes(HeaderSet(@, "X-Aws-Sqsd-Msgid", msg.MessageId),
                                      msg.MessageAttributes)]
             signed ==
                IF Len(config.HMACSecretKey) > 0
                THEN [named EXCEPT !.Header =
                        HeaderSet(@, config.HTTPHMACHeader,
                                  makeHMAC(hmacSignature(config) \o msg.Body,
                                           config.HMACSecretKey))]
                ELSE named
             authorized ==
                IF Len(config.HTTPAUTHORIZATIONHeader) > 0
                THEN [signed EXCEPT !.Header =
                        HeaderSet(@, IF Len(config.HTTPAUTHORIZATIONHeaderName) = 0
                                     THEN "Authorization"
                                     ELSE config.HTTPAUTHORIZATIONHeaderName,
                                  config.HTTPAUTHORIZATIONHeader)]
                ELSE signed
             typed ==
                IF Len(config.HTTPContentType) > 0
                THEN [authorized EXCEPT !.Header =
                        HeaderSet(@, "Content-Type", config.HTTPContentType)]
                ELSE authorized
         IN  Sent(typed)

\* a nil *HMACOptions
NilOptions == [nil |-> TRUE]

\* Client.Request of sqshttp (part_008), up to c.httpClient.Do(req)
RequestBuild(client, msg) ==
    IF NewRequestFails(client.url) THEN NotSent("error")
    ELSE IF NilAttribute(msg.MessageAttributes) THEN NotSent("panic")
    ELSE LET req == NewRequest(client.url, msg.Body)
             named == [req EXCEPT !.Header =
                        AddAttributes(HeaderSet(@, "X-Aws-Sqsd-Msgid", msg.MessageId),
                                      msg.MessageAttributes)]
             signed ==
                IF client.hmacOptions # NilOptions
                THEN [named EXCEPT !.Header =
                        HeaderSet(@, client.hmacOptions.HTTPHeader,
                                  makeHMAC(client.hmacOptions.Signature \o msg.Body,
                                           client.hmacOptions.Secret))]
                ELSE named
             typed ==
                IF Len(client.contentTypeHeader) > 0
                THEN [signed EXCEPT !.Header =
                        HeaderSet(@, "Content-Type", client.contentTypeHeader)]
                ELSE signed
         IN  Sent(typed)

\* the configurations, clients and messages the requests are built for
URLs == {"http://a", "http://b", BadURL}
ContentTypes == {"", "application/json"}
HeaderNames == {"", "X-Hmac"}
SecretKeys == {"", "k1"}

Configs ==
    [HTTPURL : URLs, HTTPContentType : ContentTypes, HTTPHMACHeader : HeaderNames,
     HMACSecretKey : SecretKeys, HTTPAUTHORIZATIONHeader : {"", "tok"},
     HTTPAUTHORIZATIONHeaderName : {"", "X-Auth"}]

Clients ==
    [url : URLs, contentTypeHeader : ContentTypes,
     hmacOptions : {NilOptions}
                   \cup [Signature : {"POST http://a\n"}, Secret : SecretKeys,
                         HTTPHeader : HeaderNames]]

AttributeMaps ==
    {NoHeaders, [k \in {"Kind"} |-> String("order")], [k \in {"Blob"} |-> NilString]}

FullMessages ==
    [MessageId : {"m1"}, Body : {"", "b1"}, MessageAttributes : AttributeMaps]

\* s.httpRequest(*msg.Body) of supervisor.go
CallHttpRequestBuild(config, msg) ==
    /\ Alive("request")
    /\ call = NoCall
    /\ call' = [fn |-> "httpRequest", res |-> [config |-> config, msg |-> msg],
                result |-> httpRequestBuild(config, msg.Body)]
    /\ UNCHANGED <<sys, rev, started, shutdown, wg, crashed, workers, visible, waitPc,
                   now, env, hist>>

\* s.httpRequest(msg) of part_007
CallHttpRequestBuild007(config, msg) ==
    /\ Alive("request")
    /\ call = NoCall
    /\ call' = [fn |-> "httpRequest007", res |-> [config |-> config, msg |-> msg],
                result |-> httpRequestBuild007(config, msg)]
    /\ UNCHANGED <<sys, rev, started, shutdown, wg, crashed, workers, visible, waitPc,
                   now, env, hist>>

\* c.Request(msg) of sqshttp
CallRequestBuild(client, msg) ==
    /\ Alive("request")
    /\ call = NoCall
    /\ call' = [fn |-> "Request", res |-> [config |-> client, msg |-> msg],
                result |-> RequestBuild(client, msg)]
    /\ UNCHANGED <<sys, rev, started, shutdown, wg, crashed, workers, visible, waitPc,
                   now, env, hist>>

InitRequest ==
    /\ sys = "request"
    /\ rev = "current"
    /\ env = DispatchEnv
    /\ now = 0
    /\ InitCommon

\* a request is built once, for any configuration and message
Buildable(S) == IF call = NoCall THEN S ELSE {}

NextRequest ==
    \/ \E config \in Buildable(Configs), msg \in FullMessages :
            CallHttpRequestBuild(config, msg)
    \/ \E config \in Buildable(Configs), msg \in FullMessages :
            CallHttpRequestBuild007(config, msg)
    \/ \E client \in Buildable(Clients), msg \in FullMessages :
            CallRequestBuild(client, msg)

SpecRequest == InitRequest /\ [][NextRequest]_vars

(***************************************************************************)
(* Configuration: what main reads from the environment, what NewSupervisor *)
(* keeps of it and what a worker puts in its ReceiveMessageInput.          *)
(***************************************************************************)
\* aws.Int64(v) and a field of the input left unset
Int64(v) == [nil |-> FALSE, v |-> v]
NilInt64 == [nil |-> TRUE, v |-> 0]

\* NewSupervisor: the configuration is stored as given
NewSupervisor(config) ==
    [workerConfig |-> config, hmacSignature |-> hmacSignature(config),
     shutdown |-> FALSE]

\* main: log.Fatal unless the queue URL and the HTTP URL are non-empty
mainAccepts(config) == Len(config.QueueURL) # 0 /\ Len(config.HTTPURL) # 0

\* recInput of Supervisor.worker
SupRecInput(s) ==
    [MaxNumberOfMessages |-> Int64(s.workerConfig.QueueMaxMessages),
     QueueUrl |-> String(s.workerConfig.QueueURL),
     WaitTimeSeconds |-> Int64(s.workerConfig.QueueWaitTime),
     MessageAttributeNames |-> {}]

\* recInput of Director.worker: the three fields are commented out
DirRecInput ==
    [MaxNumberOfMessages |-> NilInt64, QueueUrl |-> NilString,
     WaitTimeSeconds |-> NilInt64, MessageAttributeNames |-> {"All"}]

QueueConfigs ==
    [QueueURL : {"", "http://queue"}, HTTPURL : {"", "http://a"},
     QueueMaxMessages : {0, 1, 10, 11}, QueueWaitTime : {-1, 0, 20, 21}]

\* NewSupervisor(config), Start and the first ReceiveMessage of a worker
CallSupReceive(config) ==
    /\ Alive("config")
    /\ call = NoCall
    /\ call' = [fn |-> "Supervisor.worker", res |-> config,
                result |-> SupRecInput(NewSupervisor(config))]
    /\ UNCHANGED <<sys, rev, started, shutdown, wg, crashed, workers, visible, waitPc,
                   now, env, hist>>

\* the same reached from main with the configuration of the environment
CallMainReceive(config) ==
    /\ Alive("config")
    /\ call = NoCall
    /\ mainAccepts(config)
    /\ call' = [fn |-> "main", res |-> config,
                result |-> SupRecInput(NewSupervisor(config))]
    /\ UNCHANGED <<sys, rev, started, shutdown, wg, crashed, workers, visible, waitPc,
                   now, env, hist>>

\* the first ReceiveMessage of a Director worker
CallDirReceive(config) ==
    /\ Alive("config")
    /\ call = NoCall
    /\ call' = [fn |-> "Director.worker", res |-> config, result |-> DirRecInput]
    /\ UNCHANGED <<sys, rev, started, shutdown, wg, crashed, workers, visible, waitPc,
                   now, env, hist>>

InitConfig ==
    /\ sys = "config"
    /\ rev = "current"
    /\ env = DispatchEnv
    /\ now = 0
    /\ InitCommon

NextConfig ==
    \/ \E config \in Buildable(QueueConfigs) : CallSupReceive(config)
    \/ \E config \in Buildable(QueueConfigs) : CallMainReceive(config)
    \/ \E config \in Buildable(QueueConfigs) : CallDirReceive(config)

SpecConfig == InitConfig /\ [][NextConfig]_vars

(***************************************************************************)
(* The health check main runs before it constructs and starts the          *)
(* Supervisor (part_008).  call holds main's frame (its position and       *)
(* numSuccesses), env the configuration read from the environment and hist *)
(* the answers http.Get(healthURL) has given so far.                       *)
(***************************************************************************)
MaxProbes == 4

HealthResponses ==
    {TransportError, Response(200, NoHeader), Response(204, NoHeader),
     Response(500, NoHeader)}

HealthConfigs == [HTTPHealthPath : {"", "/health"}, HTTPHealthSucessCount : 0..2]

MainFrame(pc, n) == [fn |-> "main", pc |-> pc, numSuccesses |-> n]

\* len(c.HTTPHealthPath) == 0: the health check is skipped
MainSkipHealth ==
    /\ Alive("main")
    /\ call.pc = "health"
    /\ Len(env.HTTPHealthPath) = 0
    /\ call' = MainFrame("start", call.numSuccesses)
    /\ UNCHANGED <<sys, rev, started, shutdown, wg, crashed, workers, visible, waitPc,
                   now, env, hist>>

\* one turn of the for loop: http.Get(healthURL) answers resp
MainProbe(resp) ==
    /\ Alive("main")
    /\ call.pc = "health"
    /\ Len(env.HTTPHealthPath) # 0
    /\ Len(hist.probes) < MaxProbes
    /\ hist' = [hist EXCEPT !.probes = Append(@, resp),
                            \* time.Sleep(HTTPHealthInterval) in the else branch only
                            !.sleeps = Append(@, resp.err)]
    /\ call' = IF resp.err THEN call
               ELSE IF call.numSuccesses = env.HTTPHealthSucessCount
                    THEN MainFrame("start", call.numSuccesses)
                    ELSE MainFrame("health", call.numSuccesses + 1)
    /\ UNCHANGED <<sys, rev, started, shutdown, wg, crashed, workers, visible, waitPc,
                   now, env>>

\* supervisor.NewSupervisor(...); s.Start(c.HTTPMaxConns)
MainStart ==
    /\ Alive("main")
    /\ call.pc = "start"
    /\ started' = TRUE
    /\ call' = MainFrame("wait", call.numSuccesses)
    /\ UNCHANGED <<sys, rev, shutdown, wg, crashed, workers, visible, waitPc, now, env,
                   hist>>

InitHealth ==
    /\ sys = "main"
    /\ rev = "part_008"
    /\ env \in HealthConfigs
    /\ call = MainFrame("health", 0)
    /\ hist = [probes |-> <<>>, sleeps |-> <<>>]
    /\ visible = {}
    /\ started = FALSE
    /\ shutdown = FALSE
    /\ wg = 0
    /\ crashed = FALSE
    /\ workers = <<>>
    /\ waitPc = "idle"
    /\ now = 0

NextHealth ==
    \/ MainSkipHealth
    \/ \E resp \in HealthResponses : MainProbe(resp)
    \/ MainStart

SpecHealth == InitHealth /\ [][NextHealth]_vars

(***************************************************************************)
(* The mutex of the Supervisor (its embedded sync.Mutex) and of the        *)
(* Director (d.mu), with Shutdown and Start taken apart into their Lock,   *)
(* body and Unlock.  Thread 0 is a goroutine outside the pool, whose frame *)
(* is call; thread w > 0 is worker w, which runs Shutdown when a queue     *)
(* callback calls it, as the mocks of the tests do.  hist.mu is the set of *)
(* threads holding the mutex, sys the program and rev is "mutex".          *)
(***************************************************************************)
MuWorkers == 2         \* numWorkers handed to Start
MuCalls == 3           \* calls of Start and Shutdown made by thread 0
MuCallbacks == 1       \* Shutdown calls made on each worker's own thread

\* the frame of a thread: fn is the method it executes ("none" outside a
\* call) and at its position in it
Frame(fn, at) == [fn |-> fn, at |-> at]
Idle == Frame("none", "idle")

MuWorker(pc, seen) == [pc |-> pc, seen |-> seen, frame |-> Idle, callbacks |-> 0]

\* how the worker loop of the program gets at the flag: the Supervisor reads
\* the field s.shutdown, the Director receives from ctx.Done()
FlagRead == IF sys = "supervisor" THEN "plain" ELSE "channel"

MuAlive == rev = "mutex" /\ ~crashed

FrameOf(t) == IF t = 0 THEN call.frame ELSE workers[t].frame

MuThreads == 0..Len(workers)

\* thread t goes on to position f of its call
MuStep(t, f) ==
    IF t = 0
    THEN /\ call' = [call EXCEPT !.frame = f,
                                  !.calls = IF f = Idle THEN @ + 1 ELSE @]
         /\ UNCHANGED workers
    ELSE /\ workers' = [workers EXCEPT ![t].frame = f]
         /\ UNCHANGED call

\* thread 0 calls Shutdown
MuCallShutdown ==
    /\ MuAlive
    /\ call.frame = Idle /\ call.calls < MuCalls
    /\ call' = [call EXCEPT !.frame = Frame("Shutdown", "lock")]
    /\ UNCHANGED <<sys, rev, started, shutdown, wg, crashed, workers, visible, waitPc,
                   now, env, hist>>

\* the ReceiveMessage or DeleteMessageBatch in which worker w is calls Shutdown
MuCallbackShutdown(w) ==
    /\ MuAlive
    /\ w \in Launched
    /\ workers[w].pc \in {"receive", "delete"}
    /\ workers[w].frame = Idle /\ workers[w].callbacks < MuCallbacks
    /\ workers' = [workers EXCEPT ![w].frame = Frame("Shutdown", "lock"),
                                  ![w].callbacks = @ + 1]
    /\ UNCHANGED <<sys, rev, started, shutdown, wg, crashed, visible, waitPc, now, env,
                   call, hist>>

\* s.Lock() / d.mu.Lock() of Shutdown and of Director.Start: the thread goes
\* on once nobody holds the mutex
MuLock(t) ==
    /\ MuAlive
    /\ t \in MuThreads
    /\ FrameOf(t).at = "lock"
    /\ hist.mu = {}
    /\ hist' = [hist EXCEPT !.mu = {t}]
    /\ MuStep(t, Frame(FrameOf(t).fn, "body"))
    /\ UNCHANGED <<sys, rev, started, shutdown, wg, crashed, visible, waitPc, now, env>>

\* the body of Shutdown: s.shutdown = true, or d.canc(); a worker that sets
\* the flag itself sees it
MuShutdownBody(t) ==
    /\ MuAlive
    /\ t \in MuThreads
    /\ FrameOf(t) = Frame("Shutdown", "body")
    /\ shutdown' = TRUE
    /\ IF t = 0
       THEN /\ call' = [call EXCEPT !.frame = Frame("Shutdown", "unlock")]
            /\ UNCHANGED workers
       ELSE /\ workers' = [workers EXCEPT ![t].frame = Frame("Shutdown", "unlock"),
                                         ![t].seen = TRUE]
            /\ UNCHANGED call
    /\ UNCHANGED <<sys, rev, started, wg, crashed, visible, waitPc, now, env, hist>>

\* mutant of MuUnlock: the call returns without releasing the mutex
MuUnlockKept(t) ==
    /\ MuAlive
    /\ t \in MuThreads
    /\ FrameOf(t).at = "unlock"
    /\ MuStep(t, Idle)
    /\ UNCHANGED <<sys, rev, started, shutdown, wg, crashed, visible, waitPc, now, env,
                   hist>>

\* the deferred Unlock, with which the call returns
MuUnlock(t) ==
    /\ MuAlive
    /\ t \in MuThreads
    /\ FrameOf(t).at = "unlock"
    /\ hist' = [hist EXCEPT !.mu = @ \ {t}]
    /\ MuStep(t, Idle)
    /\ UNCHANGED <<sys, rev, started, shutdown, wg, crashed, visible, waitPc, now, env>>

\* Supervisor.Start on thread 0: startOnce.Do, which takes no lock of the
\* Supervisor's own mutex
MuSupStart ==
    /\ MuAlive
    /\ sys = "supervisor"
    /\ call.frame = Idle /\ call.calls < MuCalls
    /\ call' = [call EXCEPT !.calls = @ + 1]
    /\ IF started
       THEN UNCHANGED <<started, wg, workers>>
       ELSE /\ started' = TRUE
            /\ wg' = wg + env.numWorkers
            /\ workers' = [k \in 1..env.numWorkers |-> MuWorker("head", shutdown)]
    /\ UNCHANGED <<sys, rev, shutdown, crashed, visible, waitPc, now, env, hist>>

\* thread 0 calls Director.Start, which begins with d.mu.Lock()
MuCallDirStart ==
    /\ MuAlive
    /\ sys = "director"
    /\ call.frame = Idle /\ call.calls < MuCalls
    /\ call' = [call EXCEPT !.frame = Frame("Start", "lock")]
    /\ UNCHANGED <<sys, rev, started, shutdown, wg, crashed, workers, visible, waitPc,
                   now, env, hist>>

\* the body of Director.Start, under d.mu
MuDirStartBody ==
    /\ MuAlive
    /\ call.frame = Frame("Start", "body")
    /\ call' = [call EXCEPT !.frame = Frame("Start", "unlock")]
    /\ IF started
       THEN UNCHANGED <<started, workers>>
       ELSE /\ started' = TRUE
            /\ workers' = [k \in 1..env.numWorkers |-> MuWorker("spawned", FALSE)]
    /\ UNCHANGED <<sys, rev, shutdown, wg, crashed, visible, waitPc, now, env, hist>>

\* Wait: wg.Wait, which takes no mutex
MuWaitCall ==
    /\ MuAlive
    /\ waitPc = "idle"
    /\ waitPc' = "waiting"
    /\ UNCHANGED <<sys, rev, started, shutdown, wg, crashed, workers, visible, now, env,
                   call, hist>>

MuWaitReturn ==
    /\ MuAlive
    /\ waitPc = "waiting"
    /\ wg = 0
    /\ waitPc' = "returned"
    /\ UNCHANGED <<sys, rev, started, shutdown, wg, crashed, workers, visible, now, env,
                   call, hist>>

\* the write of s.shutdown becomes visible to a worker of the Supervisor
MuFlagVisible(w) ==
    /\ MuAlive
    /\ sys = "supervisor"
    /\ w \in Launched
    /\ shutdown /\ ~workers[w].seen
    /\ workers' = [workers EXCEPT ![w].seen = TRUE]
    /\ UNCHANGED <<sys, rev, started, shutdown, wg, crashed, visible, waitPc, now, env,
                   call, hist>>

\* the first statements of Director.worker: d.wg.Add(1)
MuWorkerBegin(w) ==
    /\ MuAlive
    /\ w \in Launched
    /\ workers[w].pc = "spawned"
    /\ wg' = wg + 1
    /\ workers' = [workers EXCEPT ![w].pc = "head"]
    /\ UNCHANGED <<sys, rev, started, shutdown, crashed, visible, waitPc, now, env, call,
                   hist>>

\* mutant of MuWorkerHead: the worker locks the mutex to read the flag and
\* keeps it for the iteration
MuWorkerHeadLocked(w) ==
    /\ MuAlive
    /\ w \in Launched
    /\ workers[w].pc = "head"
    /\ hist.mu = {}
    /\ hist' = [hist EXCEPT !.mu = {w}]
    /\ IF (IF FlagRead = "plain" THEN workers[w].seen ELSE shutdown)
       THEN /\ workers' = [workers EXCEPT ![w].pc = "done"]
            /\ wg' = wg - 1
       ELSE /\ workers' = [workers EXCEPT ![w].pc = "receive"]
            /\ UNCHANGED wg
    /\ UNCHANGED <<sys, rev, started, shutdown, crashed, visible, waitPc, now, env, call>>

\* the loop head: `if s.shutdown { return }`, read without the mutex, or
\* `case <-d.ctx.Done()`
MuWorkerHead(w) ==
    /\ MuAlive
    /\ w \in Launched
    /\ workers[w].pc = "head"
    /\ IF (IF FlagRead = "plain" THEN workers[w].seen ELSE shutdown)
       THEN /\ workers' = [workers EXCEPT ![w].pc = "done"]
            /\ wg' = wg - 1
       ELSE /\ workers' = [workers EXCEPT ![w].pc = "receive"]
            /\ UNCHANGED wg
    /\ UNCHANGED <<sys, rev, started, shutdown, crashed, visible, waitPc, now, env, call,
                   hist>>

\* where the loop goes after the call the worker is in has returned:
\* ReceiveMessage (back to the head on an error or an empty answer), the
\* POSTs, DeleteMessageBatch, ChangeMessageVisibilityBatch
AfterCall(pc) ==
    CASE pc = "receive" -> {"head", "post"}
      [] pc = "post" -> {"delete"}
      [] pc = "delete" -> {"changevis"}
      [] pc = "changevis" -> {"head"}
      [] OTHER -> {}

\* the call worker w is blocked in returns; a callback of the call that is
\* inside Shutdown has to return first
MuWorkerCall(w) ==
    /\ MuAlive
    /\ w \in Launched
    /\ workers[w].frame = Idle
    /\ \E pc \in AfterCall(workers[w].pc) :
            workers' = [workers EXCEPT ![w].pc = pc]
    /\ UNCHANGED <<sys, rev, started, shutdown, wg, crashed, visible, waitPc, now, env,
                   call, hist>>

InitMutex ==
    /\ sys \in {"supervisor", "director"}
    /\ rev = "mutex"
    /\ env = [numWorkers |-> MuWorkers]
    /\ call = [frame |-> Idle, calls |-> 0]
    /\ hist = [mu |-> {}]
    /\ workers = <<>>
    /\ visible = {}
    /\ started = FALSE
    /\ shutdown = FALSE
    /\ wg = 0
    /\ crashed = FALSE
    /\ waitPc = "idle"
    /\ now = 0

NextMutex ==
    \/ MuCallShutdown
    \/ \E w \in 1..MuWorkers : MuCallbackShutdown(w)
    \/ \E t \in 0..MuWorkers : MuLock(t)
    \/ \E t \in 0..MuWorkers : MuShutdownBody(t)
    \/ \E t \in 0..MuWorkers : MuUnlock(t)
    \/ MuSupStart
    \/ MuCallDirStart
    \/ MuDirStartBody
    \/ MuWaitCall
    \/ MuWaitReturn
    \/ \E w \in 1..MuWorkers : MuFlagVisible(w)
    \/ \E w \in 1..MuWorkers : MuWorkerBegin(w)
    \/ \E w \in 1..MuWorkers : MuWorkerHead(w)
    \/ \E w \in 1..MuWorkers : MuWorkerCall(w)

SpecMutex == InitMutex /\ [][NextMutex]_vars

\* a thread inside Shutdown or Start is scheduled, and a mutex that is free
\* is handed to a thread waiting for it
MutexFairness ==
    \A t \in 0..MuWorkers :
        WF_vars(MuLock(t) \/ MuShutdownBody(t) \/ MuUnlock(t) \/ MuDirStartBody)

FairSpecMutex == SpecMutex /\ MutexFairness

(***************************************************************************)
(* The cron worker (part_001).  hist holds the fields of the Worker and    *)
(* its surroundings: cron is w.cron (0 for nil, else the number of the     *)
(* cron.Cron it points to), running the schedulers whose run loop is       *)
(* started, done the tokens in fsDoneChan, file what the cron file holds.  *)
(* call is the frame of the goroutine that called New and then calls Run   *)
(* and Stop; workers are the goroutines Run launches, each with the write  *)
(* events its watcher has queued.  fsnotify is taken to work: NewWatcher   *)
(* and Add return no error.                                                *)
(***************************************************************************)
MaxWrites == 2         \* writes to the cron file

CronAlive == sys = "cron" /\ ~crashed

Watcher(pc) == [pc |-> pc, events |-> 0]

\* the start of Run: `if nil == w.cron { return }`, else w.cron.Start()
RunStarts(h) == IF h.cron = 0 THEN h ELSE [h EXCEPT !.running = @ \cup {h.cron}]

\* Run on the goroutine that made the Worker: up to w.cron.Start()
CronRun ==
    /\ CronAlive
    /\ call.pc = "run"
    /\ hist' = RunStarts(hist)
    /\ call' = [call EXCEPT !.pc = IF hist.cron = 0 THEN "idle" ELSE "watch"]
    /\ UNCHANGED <<sys, rev, started, shutdown, wg, crashed, workers, visible, waitPc,
                   now, env>>

\* Run, from fsnotify.NewWatcher() to `go func() {...}()`
CronRunWatch ==
    /\ CronAlive
    /\ call.pc = "watch"
    /\ workers' = Append(workers, Watcher("select"))
    /\ call' = [call EXCEPT !.pc = "idle"]
    /\ UNCHANGED <<sys, rev, started, shutdown, wg, crashed, visible, waitPc, now, env,
                   hist>>

\* a write to the cron file: every watcher that is not closed queues an event
CronWriteFile(content) ==
    /\ CronAlive
    /\ hist.writes < MaxWrites
    /\ hist' = [hist EXCEPT !.file = content, !.writes = @ + 1]
    /\ workers' = [g \in Launched |->
                      IF workers[g].pc = "exited" THEN workers[g]
                      ELSE [workers[g] EXCEPT !.events = @ + 1]]
    /\ UNCHANGED <<sys, rev, started, shutdown, wg, crashed, visible, waitPc, now, env,
                   call>>

\* `case <-w.fsDoneChan: return`, with the deferred watcher.Close()
CronSelectDone(g) ==
    /\ CronAlive
    /\ g \in Launched
    /\ workers[g].pc = "select"
    /\ hist.done > 0
    /\ hist' = [hist EXCEPT !.done = @ - 1]
    /\ workers' = [workers EXCEPT ![g].pc = "exited"]
    /\ UNCHANGED <<sys, rev, started, shutdown, wg, crashed, visible, waitPc, now, env,
                   call>>

\* `case event, ok := <-watcher.Events` with a Write event
CronSelectWrite(g) ==
    /\ CronAlive
    /\ g \in Launched
    /\ workers[g].pc = "select"
    /\ workers[g].events > 0
    /\ workers' = [workers EXCEPT ![g].pc = "load", ![g].events = @ - 1]
    /\ UNCHANGED <<sys, rev, started, shutdown, wg, crashed, visible, waitPc, now, env,
                   call, hist>>

\* loadCronTab, first half: the old scheduler is stopped and w.cron set to nil
CronLoadStop(g) ==
    /\ CronAlive
    /\ g \in Launched
    /\ workers[g].pc = "load"
    /\ hist' = [hist EXCEPT !.running = @ \ {hist.cron}, !.cron = 0]
    /\ workers' = [workers EXCEPT ![g].pc = "entries"]
    /\ UNCHANGED <<sys, rev, started, shutdown, wg, crashed, visible, waitPc, now, env,
                   call>>

\* loadCronTab, second half: readCronTab, parseCronTab and loadCronEntries,
\* which makes a new cron.Cron unless the file could not be read or parsed
CronLoadEntries(g) ==
    /\ CronAlive
    /\ g \in Launched
    /\ workers[g].pc = "entries"
    /\ hist' = IF hist.file = "valid"
               THEN [hist EXCEPT !.cron = hist.next, !.next = @ + 1]
               ELSE hist
    /\ workers' = [workers EXCEPT ![g].pc = "run"]
    /\ UNCHANGED <<sys, rev, started, shutdown, wg, crashed, visible, waitPc, now, env,
                   call>>

\* w.Run() called by the watching goroutine, up to w.cron.Start(); when
\* w.cron is nil Run returns and so does the goroutine
CronRerun(g) ==
    /\ CronAlive
    /\ g \in Launched
    /\ workers[g].pc = "run"
    /\ hist' = RunStarts(hist)
    /\ workers' = [workers EXCEPT ![g].pc = IF hist.cron = 0 THEN "exited" ELSE "watch"]
    /\ UNCHANGED <<sys, rev, started, shutdown, wg, crashed, visible, waitPc, now, env,
                   call>>

\* the rest of that Run: a new watcher and a new goroutine; the old one
\* returns and closes its watcher
CronRerunWatch(g) ==
    /\ CronAlive
    /\ g \in Launched
    /\ workers[g].pc = "watch"
    /\ workers' = Append([workers EXCEPT ![g].pc = "exited"], Watcher("select"))
    /\ UNCHANGED <<sys, rev, started, shutdown, wg, crashed, visible, waitPc, now, env,
                   call, hist>>

\* make(chan bool, 10)
fsDoneChanCap == 10

\* Stop: w.fsDoneChan <- true
CronStopSend ==
    /\ CronAlive
    /\ call.pc = "idle"
    /\ hist.done < fsDoneChanCap
    /\ hist' = [hist EXCEPT !.done = @ + 1]
    /\ call' = [call EXCEPT !.pc = "check"]
    /\ UNCHANGED <<sys, rev, started, shutdown, wg, crashed, workers, visible, waitPc,
                   now, env>>

\* Stop: `if nil != w.cron`, read without w.mu
CronStopCheck ==
    /\ CronAlive
    /\ call.pc = "check"
    /\ call' = [call EXCEPT !.pc = IF hist.cron = 0 THEN "returned" ELSE "stop"]
    /\ UNCHANGED <<sys, rev, started, shutdown, wg, crashed, workers, visible, waitPc,
                   now, env, hist>>

\* Stop: w.cron.Stop(), with w.cron read again; on a nil pointer the call
\* panics
CronStopCron ==
    /\ CronAlive
    /\ call.pc = "stop"
    /\ IF hist.cron = 0
       THEN /\ crashed' = TRUE
            /\ UNCHANGED <<call, hist>>
       ELSE /\ hist' = [hist EXCEPT !.running = @ \ {hist.cron}]
            /\ call' = [call EXCEPT !.pc = "returned"]
            /\ UNCHANGED crashed
    /\ UNCHANGED <<sys, rev, started, shutdown, wg, workers, visible, waitPc, now, env>>

\* a running scheduler fires an entry: the POST of makeCronRequestFunc
CronFire(id) ==
    /\ CronAlive
    /\ id \in hist.running
    /\ hist' = [hist EXCEPT !.fired = @ \/ call.pc = "returned"]
    /\ UNCHANGED <<sys, rev, started, shutdown, wg, crashed, workers, visible, waitPc,
                   now, env, call>>

\* New: loadCronTab makes the first cron.Cron when the file can be loaded
InitCron ==
    /\ sys = "cron"
    /\ rev = "current"
    /\ env = DispatchEnv
    /\ call = [fn |-> "main", pc |-> "run"]
    /\ \E content \in {"valid", "invalid"} :
            hist = [cron |-> IF content = "valid" THEN 1 ELSE 0, next |-> 2,
                    running |-> {}, done |-> 0, file |-> content, writes |-> 0,
                    fired |-> FALSE]
    /\ workers = <<>>
    /\ visible = {}
    /\ started = FALSE
    /\ shutdown = FALSE
    /\ wg = 0
    /\ crashed = FALSE
    /\ waitPc = "idle"
    /\ now = 0

NextCron ==
    \/ CronRun
    \/ CronRunWatch
    \/ \E content \in {"valid", "invalid"} : CronWriteFile(content)
    \/ \E g \in 1..(MaxWrites + 1) : CronSelectDone(g)
    \/ \E g \in 1..(MaxWrites + 1) : CronSelectWrite(g)
    \/ \E g \in 1..(MaxWrites + 1) : CronLoadStop(g)
    \/ \E g \in 1..(MaxWrites + 1) : CronLoadEntries(g)
    \/ \E g \in 1..(MaxWrites + 1) : CronRerun(g)
    \/ \E g \in 1..(MaxWrites + 1) : CronRerunWatch(g)
    \/ CronStopSend
    \/ CronStopCheck
    \/ CronStopCron
    \/ \E id \in 1..(MaxWrites + 1) : CronFire(id)

SpecCron == InitCron /\ [][NextCron]_vars

(***************************************************************************)
(* Properties.                                                             *)
(***************************************************************************)
\* the POST was answered, with a status in 200..226
Ok2xx(res) == ~res.err /\ res.StatusCode >= 200 /\ res.StatusCode <= 226

ReceiptsOf(entries) == {entries[j].ReceiptHandle : j \in 1..Len(entries)}

\* receipts of the messages of wk's iteration whose POST was answered 200..226
PostedOk(wk) ==
    {wk.batch[k].ReceiptHandle : k \in {j \in 1..Len(wk.resps) : Ok2xx(wk.resps[j])}}

\* receipts wk has put into its delete batch or handed to DeleteMessageBatch
DeleteReceipts(wk) ==
    ReceiptsOf(wk.deleteEntries)
    \cup UNION {ReceiptsOf(wk.calls[k].entries) :
                    k \in {c \in 1..Len(wk.calls) : wk.calls[c].op = "delete"}}

\* receipts wk has put into its change-visibility batch or handed to
\* ChangeMessageVisibilityBatch
ChangeVisReceipts(wk) ==
    ReceiptsOf(wk.changeVisibilityEntries)
    \cup UNION {ReceiptsOf(wk.calls[k].entries) :
                    k \in {c \in 1..Len(wk.calls) : wk.calls[c].op = "changevis"}}

AllDone == \A w \in Launched : workers[w].pc = "done"

\* C1: a Supervisor worker puts a receipt into a DeleteMessageBatch request
\* only if the POST made for that message in the same iteration was answered
\* with a status in 200..226; a transport error, a timeout or any other
\* status never leads to a delete.
SupDeleteOnlyAfter2xx ==
    sys = "supervisor" =>
        \A w \in Launched : DeleteReceipts(workers[w]) \subseteq PostedOk(workers[w])

\* C1 witness: a Supervisor worker has submitted a delete batch in an
\* iteration in which another message of the batch was not answered 200..226
SupDeleteOnlyAfter2xxWitness ==
    /\ sys = "supervisor"
    /\ rev = "current"
    /\ \E w \in Launched :
         /\ \E k \in 1..Len(workers[w].calls) : workers[w].calls[k].op = "delete"
         /\ \E k \in 1..Len(workers[w].resps) : ~Ok2xx(workers[w].resps[k])

\* C2: the Director schedules a delete only for a message answered with a
\* status in 200..226 (Result.Successful is true exactly for those); 199, 227,
\* 429 and 500 never reach the delete batch.
DirDeleteOnlyAfter2xx ==
    sys = "director" =>
        \A w \in Launched : DeleteReceipts(workers[w]) \subseteq PostedOk(workers[w])

\* C3: a Supervisor.Wait called after Start(n), n >= 1, has returned does not
\* return while one of the n workers is running: when it has returned, n
\* workers were launched and all have exited.
SupWaitCoversWorkers ==
    (/\ sys = "supervisor"
     /\ waitPc = "returned"
     /\ hist.waitAfterStart
     /\ hist.firstN # <<>>
     /\ hist.firstN[1] >= 1)
    => (Len(workers) = hist.firstN[1] /\ AllDone)

\* C3 witness: Wait, called after Start(2) returned, has returned
SupWaitCoversWorkersWitness ==
    /\ sys = "supervisor"
    /\ waitPc = "returned"
    /\ hist.waitAfterStart
    /\ hist.firstN = <<2>>
    /\ Len(workers) = 2
    /\ AllDone

\* C4: a Director.Wait called after Start(n) has returned does not return
\* while a worker launched by that Start is running or has not begun its loop.
DirWaitCoversWorkers ==
    (/\ sys = "director"
     /\ waitPc = "returned"
     /\ hist.waitAfterStart)
    => AllDone

\* workers the first Start(n) launches: n, and for n <= 0 the CPU count in the
\* Director and none in the Supervisor
EffectiveWorkers(n) ==
    IF n >= 1 THEN n ELSE IF sys = "director" THEN NumCPU ELSE 0

\* C5 as stated: after any sequence of Start calls (that returned) the number
\* of worker loops ever launched equals the n of the first Start call.
StartLaunchesFirstN ==
    (hist.startReturned /\ hist.firstN # <<>>) => Len(workers) = hist.firstN[1]

\* C5 as amended: after any sequence of Start calls the number of worker loops
\* ever launched is the one the first call launched (n for n >= 1; for n <= 0
\* runtime.NumCPU() in the Director and none in the Supervisor); a later Start
\* call launches no worker.
StartLaunchesOnce ==
    hist.firstN # <<>> => Len(workers) = EffectiveWorkers(hist.firstN[1])

\* C5 witness: a second Start call with another argument has been made
StartLaunchesOnceWitness ==
    /\ hist.startCalls = 2
    /\ hist.firstN = <<1>>
    /\ Len(workers) = 1
    /\ workers[1].pc = "receive"

IsAck(result) == result.type \in {"DeleteMessage", "nil"}

\* C7: for every HTTP status s the Supervisor dispatcher yields Ack (delete)
\* if and only if 200 <= s <= 226; 201, 204 and 226 yield Ack, and 199, 227,
\* 300, 404 and 500 do not.
SupClassifiesAck ==
    (call.fn \in {"httpRequest", "httpRequest006"} /\ ~call.res.err)
    => (IsAck(call.result) <=> (call.res.StatusCode >= 200 /\ call.res.StatusCode <= 226))

\* number of entries of the list that carry the receipt
Count(entries, receipt) ==
    Cardinality({j \in 1..Len(entries) : entries[j].ReceiptHandle = receipt})

\* C8: in every iteration each received message is scheduled for exactly one
\* of delete, change-visibility and nothing: no receipt is in both batches,
\* none is twice in a batch, and a message not yet dispatched is in neither.
AckOrDeferExclusive ==
    \A w \in Launched :
        LET wk == workers[w]
        IN  /\ DeleteReceipts(wk) \cap ChangeVisReceipts(wk) = {}
            /\ \A k \in 1..Len(wk.batch) :
                 Count(wk.deleteEntries, wk.batch[k].ReceiptHandle)
                   + Count(wk.changeVisibilityEntries, wk.batch[k].ReceiptHandle)
                 <= (IF k <= Len(wk.resps) THEN 1 ELSE 0)

\* C8 witness: a worker ends the dispatch of a batch with one message to
\* delete and one whose visibility changes
AckOrDeferExclusiveWitness ==
    \E w \in Launched :
        /\ workers[w].pc = "delete"
        /\ Len(workers[w].deleteEntries) = 1
        /\ Len(workers[w].changeVisibilityEntries) = 1

\* C9: at the end of the dispatch phase of a Supervisor iteration the delete
\* entries, the change-visibility entries and the messages classified Fail
\* add up to the messages the receive returned.
BatchComplete ==
    sys = "supervisor" =>
        \A w \in Launched :
            LET wk == workers[w]
            IN  /\ Len(wk.deleteEntries) + Len(wk.changeVisibilityEntries) + wk.fails
                     = Len(wk.resps)
                /\ wk.pc \in {"delete", "changevis"} => Len(wk.resps) = Len(wk.batch)

\* C9 witness: the part_007 revision ends a dispatch phase with one
\* change-visibility entry and one failed message
BatchCompleteWitness ==
    /\ sys = "supervisor"
    /\ rev = "r007"
    /\ \E w \in Launched :
         /\ workers[w].pc = "delete"
         /\ Len(workers[w].batch) = 2
         /\ Len(workers[w].changeVisibilityEntries) = 1
         /\ workers[w].fails = 1

\* the queue calls of wk's iteration that acknowledge messages
AckCalls(wk) ==
    SelectSeq(wk.calls, LAMBDA c : c.op \in {"delete", "changevis"})

AllAnswered200(wk) ==
    /\ Len(wk.batch) >= 1
    /\ Len(wk.resps) = Len(wk.batch)
    /\ \A k \in 1..Len(wk.resps) : ~wk.resps[k].err /\ wk.resps[k].StatusCode = 200

\* C10: when a receive returns m1..mk and every POST returns 200, the
\* Supervisor worker issues in that iteration exactly one DeleteMessageBatch,
\* whose entries are (id, receipt) of m1..mk in the order received, and no
\* ChangeMessageVisibilityBatch.
HappyPath ==
    sys = "supervisor" =>
        \A w \in Launched :
            LET wk == workers[w]
            IN  (wk.pc = "head" /\ AllAnswered200(wk)) =>
                    /\ Len(AckCalls(wk)) = 1
                    /\ AckCalls(wk)[1].op = "delete"
                    /\ AckCalls(wk)[1].entries =
                         [k \in 1..Len(wk.batch) |->
                            [Id |-> wk.batch[k].MessageId,
                             ReceiptHandle |-> wk.batch[k].ReceiptHandle]]

\* C10 witness: a worker of supervisor.go has ended an iteration over two
\* messages that were both answered 200
HappyPathWitness ==
    /\ sys = "supervisor"
    /\ rev = "current"
    /\ \E w \in Launched :
         /\ workers[w].pc = "head"
         /\ Len(workers[w].batch) = 2
         /\ AllAnswered200(workers[w])

\* the calls of kind op among the queue calls of wk's iteration
CallsOf(wk, op) == SelectSeq(wk.calls, LAMBDA c : c.op = op)

\* C11: in every iteration of a Supervisor worker DeleteMessageBatch is called
\* (once) if and only if a message was classified Ack, and
\* ChangeMessageVisibilityBatch is called (once) if and only if a message was
\* classified Defer; after an empty receive, or when every POST failed, the
\* worker makes neither call.
AckCallsIffClassified ==
    sys = "supervisor" =>
        \A w \in Launched :
            LET wk == workers[w]
            IN  (wk.pc = "head" /\ wk.calls # <<>>) =>
                    /\ Len(CallsOf(wk, "delete")) =
                         (IF \E k \in 1..Len(wk.resps) : Ok2xx(wk.resps[k]) THEN 1 ELSE 0)
                    /\ Len(CallsOf(wk, "changevis")) =
                         (IF Len(wk.changeVisibilityEntries) > 0 THEN 1 ELSE 0)
                    /\ (\A k \in 1..Len(wk.resps) :
                            wk.resps[k].err \/ wk.resps[k].StatusCode = 500)
                       => AckCalls(wk) = <<>>

\* C11 witness: a worker of supervisor.go has ended an iteration over two
\* messages that were both answered 500, without a queue call after the POSTs
AckCallsIffClassifiedWitness ==
    /\ sys = "supervisor"
    /\ rev = "current"
    /\ \E w \in Launched :
         /\ workers[w].pc = "head"
         /\ Len(workers[w].resps) = 2
         /\ \A k \in 1..2 : ~workers[w].resps[k].err /\ workers[w].resps[k].StatusCode = 500
         /\ AckCalls(workers[w]) = <<>>

\* the header value a server writes for n whole seconds, n >= 0: the decimal
\* digits of n
RECURSIVE FormatInt(_)
FormatInt(n) ==
    IF n < 10 THEN <<DigitChars[n + 1]>>
    ELSE Append(FormatInt(n \div 10), DigitChars[(n % 10) + 1])

\* numbers of seconds a Retry-After header of the endpoint can carry
Seconds == 0..9

\* the k-th message of wk's batch has been dispatched with answer res
Answered(wk, k, res) == k <= Len(wk.resps) /\ wk.resps[k] = res

\* the entries of the list made for the k-th message of wk's batch
EntriesFor(entries, wk, k) ==
    SelectSeq(entries, LAMBDA e : e.ReceiptHandle = wk.batch[k].ReceiptHandle)

\* C12: for every integer S >= 0 (S = 0 included) an answer 429 with
\* Retry-After: S makes the worker schedule for that message one
\* change-visibility entry with VisibilityTimeout S and no delete entry.
RetryAfterSeconds ==
    \A w \in Launched :
        LET wk == workers[w]
        IN  \A k \in 1..Len(wk.batch) : \A S \in Seconds :
                Answered(wk, k, Response(429, FormatInt(S))) =>
                    /\ EntriesFor(wk.changeVisibilityEntries, wk, k)
                         = <<ChangeVisibilityEntry(wk.batch[k], S)>>
                    /\ EntriesFor(wk.deleteEntries, wk, k) = <<>>

\* the header value a server writes for the instant d: an RFC-1123 date
FormatDate(d) == <<"Mon,">> \o FormatInt(d)

\* instants a Retry-After date of the endpoint can name
Dates == 0..9

\* C13: an answer 429 whose Retry-After is an RFC-1123 date D in the future
\* makes the Supervisor worker schedule for that message a change-visibility
\* entry with VisibilityTimeout D - now, in whole seconds.
RetryAfterDate ==
    sys = "supervisor" =>
        \A w \in Launched :
            LET wk == workers[w]
            IN  \A k \in 1..Len(wk.batch) : \A D \in Dates :
                    (D > now /\ Answered(wk, k, Response(429, FormatDate(D)))) =>
                        EntriesFor(wk.changeVisibilityEntries, wk, k)
                          = <<ChangeVisibilityEntry(wk.batch[k], D - now)>>

\* Retry-After values that are neither an integer nor an RFC-1123 date: the
\* header is absent, or holds the word "inv"
BadHeaders == {NoHeader, <<"i", "n", "v">>}

\* C14: an answer 429 whose Retry-After is absent or unreadable is a failure:
\* the Supervisor worker puts the message in neither batch and goes on with
\* the next message of the batch.
BadRetryAfterFails ==
    sys = "supervisor" =>
        \A w \in Launched :
            LET wk == workers[w]
            IN  \A k \in 1..Len(wk.batch) : \A h \in BadHeaders :
                    Answered(wk, k, Response(429, h)) =>
                        /\ EntriesFor(wk.deleteEntries, wk, k) = <<>>
                        /\ EntriesFor(wk.changeVisibilityEntries, wk, k) = <<>>
                        /\ wk.pc \in {"dispatch", "delete", "changevis", "head"}
                        /\ Len(wk.resps) < Len(wk.batch) => wk.pc = "dispatch"

\* C14 witness: a worker of supervisor.go has ended an iteration in which the
\* first message was answered 429 with Retry-After "inv" and the second one
\* was answered 200 and deleted
BadRetryAfterFailsWitness ==
    /\ sys = "supervisor"
    /\ rev = "current"
    /\ \E w \in Launched :
         /\ workers[w].pc = "head"
         /\ Len(workers[w].resps) = 2
         /\ workers[w].resps[1] = Response(429, <<"i", "n", "v">>)
         /\ workers[w].resps[2] = Response(200, NoHeader)
         /\ Len(CallsOf(workers[w], "delete")) = 1
         /\ Len(workers[w].deleteEntries) = 1

\* receipts of the messages of wk's iteration whose POST was answered 429
Posted429(wk) ==
    {wk.batch[k].ReceiptHandle :
        k \in {j \in 1..Len(wk.resps) :
                    ~wk.resps[j].err /\ wk.resps[j].StatusCode = 429}}

\* C15: a change-visibility entry is scheduled for a message only if the
\* answer to its POST has status 429; no other status (2xx and 503 included)
\* produces a visibility change, whatever Retry-After header it carries.
ChangeVisibilityOnly429 ==
    \A w \in Launched : ChangeVisReceipts(workers[w]) \subseteq Posted429(workers[w])

\* C15 witness: a Supervisor worker has submitted a change-visibility batch
\* of one entry in an iteration in which the other message was answered 503
\* with Retry-After: 3
ChangeVisibilityOnly429Witness ==
    /\ sys = "supervisor"
    /\ \E w \in Launched :
         /\ workers[w].pc = "head"
         /\ Len(workers[w].resps) = 2
         /\ workers[w].resps[1] = Response(503, <<"3">>)
         /\ workers[w].resps[2] = Response(429, <<"3">>)
         /\ Len(CallsOf(workers[w], "changevis")) = 1
         /\ Len(workers[w].changeVisibilityEntries) = 1

\* the change-visibility entries wk has collected or handed to
\* ChangeMessageVisibilityBatch
ChangeVisEntries(wk) ==
    {wk.changeVisibilityEntries[j] : j \in 1..Len(wk.changeVisibilityEntries)}
    \cup UNION {{wk.calls[c].entries[j] : j \in 1..Len(wk.calls[c].entries)} :
                    c \in {i \in 1..Len(wk.calls) : wk.calls[i].op = "changevis"}}

\* C16: every change-visibility entry a Supervisor worker submits has
\* VisibilityTimeout >= 0, whatever Retry-After value the 429 answer carries
\* (a negative integer and a date in the past included).
VisibilityTimeoutNonNegative ==
    sys = "supervisor" =>
        \A w \in Launched :
            \A e \in ChangeVisEntries(workers[w]) : e.VisibilityTimeout >= 0

\* number of POSTs made for the k-th message of wk's batch in the iteration
PostsFor(wk, k) ==
    Len(SelectSeq(wk.calls,
                  LAMBDA c : c.op = "post" /\ c.entries = <<wk.batch[k].MessageId>>))

\* every message of wk's batch has been answered 429
AllAnswered429(wk) ==
    /\ Len(wk.batch) >= 1
    /\ Len(wk.resps) = Len(wk.batch)
    /\ \A k \in 1..Len(wk.resps) : ~wk.resps[k].err /\ wk.resps[k].StatusCode = 429

Readable429(res) ==
    /\ ~res.err
    /\ res.StatusCode = 429
    /\ res.RetryAfter \in {FormatInt(S) : S \in Seconds} \cup {FormatDate(D) : D \in Dates}

\* the instant before which the message must not be POSTed again: the date of
\* the header, or the number of seconds of the header after the answer
DueOf(r, answeredAt) ==
    IF Head(r.res.RetryAfter) = "Mon,"
    THEN DigitsValue(Tail(r.res.RetryAfter), 0)
    ELSE answeredAt + DigitsValue(r.res.RetryAfter, 0)

Rank(op) ==
    CASE op = "receive" -> 0
      [] op = "post" -> 1
      [] op = "delete" -> 2
      [] op = "changevis" -> 3

\* C19: within a worker the calls of one iteration come in strict sequence:
\* the receive, then one POST per message in the order the receive returned
\* them, then the delete batch, then the change-visibility batch; no
\* acknowledgement call comes before the last POST of the batch has returned.
StrictSequence ==
    \A w \in Launched :
        LET wk == workers[w]
            n == Len(wk.calls)
        IN  /\ n > 0 => wk.calls[1].op = "receive"
            /\ \A i, j \in 1..n : i < j => Rank(wk.calls[i].op) < Rank(wk.calls[j].op)
                                            \/ (wk.calls[i].op = "post" /\ wk.calls[j].op = "post")
            /\ \A k \in 1..Len(CallsOf(wk, "post")) :
                    /\ k <= Len(wk.batch)
                    /\ wk.calls[k + 1] = CallsOf(wk, "post")[k]
                    /\ CallsOf(wk, "post")[k].entries = <<wk.batch[k].MessageId>>
            /\ AckCalls(wk) # <<>> => Len(CallsOf(wk, "post")) = Len(wk.batch)

\* C19 witness: a worker has ended an iteration that received message 2
\* before message 1 and made five calls: receive, POST of 2, POST of 1,
\* delete batch, change-visibility batch
StrictSequenceWitness ==
    \E w \in Launched :
        /\ workers[w].pc = "head"
        /\ Len(workers[w].calls) = 5
        /\ workers[w].batch = <<Message(2), Message(1)>>
        /\ workers[w].calls[2].entries = <<2>>
        /\ workers[w].calls[3].entries = <<1>>
        /\ workers[w].calls[4].op = "delete"
        /\ workers[w].calls[5].op = "changevis"

\* worker w leaves its loop in this step
Exits(w) == w \in Launched /\ workers[w].pc # "done" /\ workers'[w].pc = "done"

\* C20: a worker loop ends only at the head of an iteration, once Shutdown has
\* been called: whatever errors the receive, the POSTs and the batch calls
\* return, every launched worker is running as long as Shutdown has not been
\* called.
ExitsOnlyOnShutdown ==
    /\ [](~shutdown => \A w \in Launched : workers[w].pc # "done")
    /\ [][\A w \in 1..(MaxWorkers + NumCPU) :
                Exits(w) => (workers[w].pc = "head" /\ shutdown)]_vars

\* C20 witness: Shutdown has not been called and a Supervisor worker is back
\* at the head of its loop after an iteration in which both batch calls
\* returned an error
ExitsOnlyOnShutdownWitness ==
    /\ sys = "supervisor"
    /\ ~shutdown
    /\ \E w \in Launched :
         /\ workers[w].pc = "head"
         /\ CallsOf(workers[w], "delete") # <<>>
         /\ CallsOf(workers[w], "delete")[1].err
         /\ CallsOf(workers[w], "changevis") # <<>>
         /\ CallsOf(workers[w], "changevis")[1].err

\* C21: an error of DeleteMessageBatch does not keep the worker from
\* submitting the non-empty change-visibility batch of the iteration and from
\* going back to the loop head; an error of either batch call never ends the
\* loop and never makes the worker submit the batch a second time.
BatchErrorsContinue ==
    \A w \in Launched :
        LET wk == workers[w]
        IN  /\ Len(CallsOf(wk, "delete")) <= 1
            /\ Len(CallsOf(wk, "changevis")) <= 1
            /\ (\E c \in 1..Len(wk.calls) :
                    wk.calls[c].op \in {"delete", "changevis"} /\ wk.calls[c].err)
               => wk.pc \in {"changevis", "head"}
            /\ (wk.pc = "head" /\ Len(wk.changeVisibilityEntries) > 0)
               => /\ Len(CallsOf(wk, "changevis")) = 1
                  /\ CallsOf(wk, "changevis")[1].entries = wk.changeVisibilityEntries

\* C21 witness: a Supervisor worker is back at the loop head after an
\* iteration whose DeleteMessageBatch returned an error and whose
\* change-visibility batch of one entry was submitted all the same
BatchErrorsContinueWitness ==
    /\ sys = "supervisor"
    /\ \E w \in Launched :
         /\ workers[w].pc = "head"
         /\ CallsOf(workers[w], "delete") # <<>>
         /\ CallsOf(workers[w], "delete")[1].err
         /\ CallsOf(workers[w], "changevis") # <<>>
         /\ ~CallsOf(workers[w], "changevis")[1].err
         /\ Len(CallsOf(workers[w], "changevis")[1].entries) = 1

\* the requests the Supervisor's httpRequest (supervisor.go and part_007) built
\* and handed to httpClient.Do
SupBuilt == call # NoCall /\ call.fn \in {"httpRequest", "httpRequest007"}

\* C22: with an HMAC secret configured, every request the Supervisor builds
\* carries, under the configured HMAC header name, the lower-case hex encoding
\* of HMAC-SHA256 keyed with the secret over "POST " + HTTPURL + "\n" + body,
\* the empty body included; the value is a function of secret, URL and body.
HmacSignature ==
    (/\ SupBuilt
     /\ call.result.outcome = "sent"
     /\ Len(call.res.config.HMACSecretKey) > 0)
    => LET config == call.res.config
           req == call.result.req
       IN  /\ config.HTTPHMACHeader \in DOMAIN req.Header
           /\ req.Header[config.HTTPHMACHeader] =
                EncodeToString(HmacSha256(config.HMACSecretKey,
                    "POST " \o config.HTTPURL \o "\n" \o call.res.msg.Body))

\* C22 witness: supervisor.go signed a request with an empty body under the
\* header name "X-Hmac"
HmacSignatureWitness ==
    /\ call # NoCall
    /\ call.fn = "httpRequest"
    /\ call.result.outcome = "sent"
    /\ call.res.config.HMACSecretKey = "k1"
    /\ call.res.config.HTTPHMACHeader = "X-Hmac"
    /\ call.res.msg.Body = ""
    /\ "X-Hmac" \in DOMAIN call.result.req.Header

\* the header names of the request the same builder makes without a secret
UnsignedNames ==
    LET config == [call.res.config EXCEPT !.HMACSecretKey = ""]
    IN  IF call.fn = "httpRequest"
        THEN DOMAIN httpRequestBuild(config, call.res.msg.Body).req.Header
        ELSE DOMAIN httpRequestBuild007(config, call.res.msg).req.Header

\* C23: a request is signed only when both the HMAC header name and the HMAC
\* secret are configured; when either is empty the request handed to the HTTP
\* client carries no HMAC header under any name.
SignedOnlyWhenBoth ==
    (/\ SupBuilt
     /\ call.result.outcome = "sent"
     /\ \/ Len(call.res.config.HMACSecretKey) = 0
        \/ Len(call.res.config.HTTPHMACHeader) = 0)
    => DOMAIN call.result.req.Header = UnsignedNames

\* C24: every ReceiveMessage request of a worker names the configured,
\* non-empty queue URL, asks for 1..10 messages and waits 0..20 seconds; a
\* configuration with an empty queue URL or HTTP URL or a batch size outside
\* 1..10 never reaches a worker.
ReceiveInputValid ==
    (call # NoCall /\ call.fn \in {"Supervisor.worker", "main", "Director.worker"})
    => /\ Len(call.res.QueueURL) # 0
       /\ Len(call.res.HTTPURL) # 0
       /\ call.result.QueueUrl = String(call.res.QueueURL)
       /\ ~call.result.MaxNumberOfMessages.nil
       /\ call.result.MaxNumberOfMessages.v \in 1..10
       /\ ~call.result.WaitTimeSeconds.nil
       /\ call.result.WaitTimeSeconds.v \in 0..20

\* C25: with a health path configured the Supervisor is started only after
\* the health endpoint answered with a 2xx status HTTPHealthSucessCount times
\* in a row, the run ending with the last probe: a failed probe or another
\* status is no success and starts the count again.
HealthGate ==
    (sys = "main" /\ started /\ Len(env.HTTPHealthPath) # 0)
    => LET probes == hist.probes
           n == env.HTTPHealthSucessCount
       IN  /\ Len(probes) >= n
           /\ \A k \in 1..Len(probes) :
                k > Len(probes) - n
                => /\ ~probes[k].err
                   /\ probes[k].StatusCode \in 200..299

\* a request was built for a URL http.NewRequest accepts
Built ==
    /\ call # NoCall
    /\ call.fn \in {"httpRequest", "httpRequest007", "Request"}
    /\ ~NewRequestFails(IF call.fn = "Request" THEN call.res.config.url
                        ELSE call.res.config.HTTPURL)

\* C26: every request built for a message is sent, attributes or not (one
\* without a string value included), and carries X-Aws-Sqsd-Msgid with the
\* message id and X-Aws-Sqsd-Attr-k with the value of every attribute k that
\* has a string value.
AttributeHeaders ==
    Built
    => LET msg == call.res.msg
           attrs == msg.MessageAttributes
       IN  /\ call.result.outcome = "sent"
           /\ "X-Aws-Sqsd-Msgid" \in DOMAIN call.result.req.Header
           /\ call.result.req.Header["X-Aws-Sqsd-Msgid"] = msg.MessageId
           /\ \A k \in DOMAIN attrs :
                ~attrs[k].nil
                => /\ AttrName(k) \in DOMAIN call.result.req.Header
                   /\ call.result.req.Header[AttrName(k)] = attrs[k].s

\* C27: every request handed to the HTTP client is a POST to the configured
\* URL with the message body as its body, and it has a Content-Type header,
\* equal to the configured content type, exactly when that is non-empty.
PostShape ==
    (Built /\ call.result.outcome = "sent")
    => LET req == call.result.req
           url == IF call.fn = "Request" THEN call.res.config.url
                  ELSE call.res.config.HTTPURL
           contentType == IF call.fn = "Request" THEN call.res.config.contentTypeHeader
                          ELSE call.res.config.HTTPContentType
       IN  /\ req.Method = "POST"
           /\ req.URL = url
           /\ req.Body = call.res.msg.Body
           /\ "Content-Type" \in DOMAIN req.Header <=> Len(contentType) > 0
           /\ Len(contentType) > 0 => req.Header["Content-Type"] = contentType

\* C27 witness: supervisor.go sent a request with a body and no content type
\* configured, and so without a Content-Type header
PostShapeWitness ==
    /\ call # NoCall
    /\ call.fn = "httpRequest"
    /\ call.result.outcome = "sent"
    /\ call.res.config.HTTPContentType = ""
    /\ call.res.msg.Body = "b1"
    /\ call.result.req.Body = "b1"
    /\ "Content-Type" \notin DOMAIN call.result.req.Header

\* C28: when the first Start is called with n <= 0 the caller does not crash
\* and the Supervisor or Director is never left started without workers:
\* either it is not started (a later Start can still launch workers) or it
\* runs a positive number of workers.
StartNonPositiveSafe ==
    (hist.firstN # <<>> /\ hist.firstN[1] <= 0)
    => /\ ~crashed
       /\ started => Len(workers) > 0

\* C29: the lifecycle flags only ever go from false to true: no step of
\* Start, Wait, Shutdown (a repeated one included) or a worker resets started
\* or shutdown, and workers are launched only by the step that sets started.
LifecycleMonotone ==
    [][/\ started => started'
       /\ shutdown => shutdown'
       /\ started => Len(workers') = Len(workers)]_vars

\* C29 witness: Start was called twice, Shutdown was called, the workers have
\* exited and Wait has returned, with both flags still set
LifecycleMonotoneWitness ==
    /\ sys = "supervisor"
    /\ started /\ shutdown
    /\ hist.startCalls = MaxStartCalls
    /\ Len(workers) > 0
    /\ \A w \in Launched : workers[w].pc = "done"
    /\ waitPc = "returned"

\* a worker ends only at the head of its loop, its iteration completed
ExitsAtHead ==
    \A w \in Launched :
        (workers[w].pc # "done" /\ workers'[w].pc = "done") => workers[w].pc = "head"

\* C30: once the shutdown flag is set every worker begins at most one more
\* ReceiveMessage call, and a worker ends only at the loop head, after the
\* POSTs and the batch submissions of the iteration in progress.
CooperativeShutdown ==
    /\ [](\A w \in Launched : workers[w].late <= 1)
    /\ [][ExitsAtHead]_vars

\* C31: while a thread is inside Shutdown, holding the mutex and about to
\* write the flag, no worker is at its loop head about to read the flag
\* otherwise than under the same mutex or through a channel.
FlagSynchronised ==
    \A t \in MuThreads, w \in Launched :
        (/\ t # w
         /\ FrameOf(t) = Frame("Shutdown", "body")
         /\ workers[w].pc = "head"
         /\ workers[w].frame = Idle)
        => (FlagRead = "channel" \/ w \in hist.mu)

\* C32: every call of Shutdown returns, whatever Start, Wait and the workers
\* do meanwhile, on a thread outside the pool (before Start as well) and on a
\* worker's own thread inside a queue callback.
ShutdownReturns ==
    \A t \in 0..MuWorkers :
        (t \in MuThreads /\ FrameOf(t).fn = "Shutdown")
        ~> (t \in MuThreads /\ FrameOf(t) = Idle)

\* C32 witness: Shutdown has returned on a worker's own thread, called from a
\* callback of the queue, while the other worker is blocked in a queue call
ShutdownReturnsWitness ==
    /\ shutdown
    /\ \E w, v \in Launched :
         /\ w # v
         /\ workers[w].callbacks = 1
         /\ workers[w].frame = Idle
         /\ workers[v].pc = "receive"

\* C33: a worker holds the mutex only while it executes the body of a
\* Shutdown it was made to call; a worker that is in ReceiveMessage, in the
\* POSTs or in a batch submission, or at its loop head, holds no lock.
NoLockAcrossCalls ==
    \A w \in Launched :
        w \in hist.mu => workers[w].frame.fn = "Shutdown"
                         /\ workers[w].frame.at \in {"body", "unlock"}

\* C33 witness: one worker is blocked in ReceiveMessage and the other in
\* DeleteMessageBatch while a thread outside the pool holds the mutex
NoLockAcrossCallsWitness ==
    /\ hist.mu = {0}
    /\ \E w, v \in Launched :
         /\ workers[w].pc = "receive" /\ workers[w].frame = Idle
         /\ workers[v].pc = "delete" /\ workers[v].frame = Idle

\* the entries refer, one each, to messages of the batch wk received
OwnEntries(wk, entries) ==
    /\ Len(entries) <= Len(wk.batch)
    /\ \A j \in 1..Len(entries) :
         \E k \in 1..Len(wk.batch) :
            /\ wk.batch[k].MessageId = entries[j].Id
            /\ wk.batch[k].ReceiptHandle = entries[j].ReceiptHandle
    /\ \A i, j \in 1..Len(entries) : i # j => entries[i].Id # entries[j].Id

\* C34: the delete entries and the change-visibility entries a worker
\* collects, and those of every batch it submits, refer to distinct messages
\* of the ReceiveMessage answer of its current iteration, so no batch is
\* larger than that answer and nothing is carried over from an earlier
\* iteration or from another worker.
BatchEntriesOwn ==
    \A w \in Launched :
        LET wk == workers[w]
        IN  /\ OwnEntries(wk, wk.deleteEntries)
            /\ OwnEntries(wk, wk.changeVisibilityEntries)
            /\ \A c \in 1..Len(wk.calls) :
                 wk.calls[c].op \in {"delete", "changevis"}
                 => OwnEntries(wk, wk.calls[c].entries)

\* C34 witness: a worker has begun a new iteration, with a message in its
\* batch and nothing collected yet, after the other worker submitted a delete
\* batch that failed
BatchEntriesOwnWitness ==
    \E w, v \in Launched :
        /\ w # v
        /\ workers[w].pc = "dispatch"
        /\ Len(workers[w].batch) = 1
        /\ workers[w].deleteEntries = <<>>
        /\ CallsOf(workers[v], "delete") # <<>>
        /\ CallsOf(workers[v], "delete")[1].err

\* the calls of the queue wk has made in its iteration
QueueCalls(wk) == SelectSeq(wk.calls, LAMBDA c : c.op # "post")

\* C35: the step in which a worker dispatches a message (the POST of
\* Supervisor.httpRequest or of Client.Request and its classification) leaves
\* started, shutdown, the wait group, the pool, the configuration and the
\* queue as they are and makes no call of the queue: deleting and changing
\* visibility are steps of the worker loop after the dispatch.
DispatchFrame ==
    [][\A w \in Launched :
          Len(CallsOf(workers'[w], "post")) > Len(CallsOf(workers[w], "post"))
          => /\ UNCHANGED <<sys, rev, started, shutdown, wg, crashed, visible, env>>
             /\ Len(workers') = Len(workers)
             /\ QueueCalls(workers'[w]) = QueueCalls(workers[w])
             /\ workers'[w].batch = workers[w].batch
             /\ \A v \in Launched : v # w => workers'[v] = workers[v]]_vars

\* C35 witness: a Supervisor worker has dispatched both messages of its
\* batch, one of them without an answer, and has called the queue only to
\* receive them
DispatchFrameWitness ==
    /\ sys = "supervisor"
    /\ \E w \in Launched :
         /\ workers[w].pc = "delete"
         /\ Len(CallsOf(workers[w], "post")) = 2
         /\ CallsOf(workers[w], "post")[1].err
         /\ Len(QueueCalls(workers[w])) = 1
         /\ visible = {}

\* C36: when Shutdown was called before the first Start, every worker that
\* Start launches leaves at its first loop head, without a ReceiveMessage
\* call and without a POST, and a Wait that is pending returns (unless the
\* Start call itself panicked).
ShutdownBeforeStart ==
    /\ [](hist.shutdownFirst
          => \A w \in Launched :
                /\ workers[w].pc \in {"spawned", "head", "done"}
                /\ workers[w].calls = <<>>
                /\ workers[w].late = 0)
    /\ (hist.shutdownFirst /\ waitPc = "waiting")
       ~> (waitPc = "returned" \/ crashed)

\* C36 witness: Shutdown came first, Start then launched two workers, both
\* have left and Wait has returned
ShutdownBeforeStartWitness ==
    /\ hist.shutdownFirst
    /\ Len(workers) = 2
    /\ \A w \in Launched : workers[w].pc = "done"
    /\ waitPc = "returned"

\* C37: with a health path configured and an endpoint that answers every
\* probe, the Supervisor is started after exactly HTTPHealthSucessCount
\* probes, and main sleeps HTTPHealthInterval between one probe and the next.
HealthProbeCount ==
    (/\ sys = "main"
     /\ Len(env.HTTPHealthPath) # 0
     /\ \A k \in 1..Len(hist.probes) : Ok2xx(hist.probes[k]))
    => /\ started => Len(hist.probes) = env.HTTPHealthSucessCount
       /\ \A k \in 1..Len(hist.probes) : k < Len(hist.probes) => hist.sleeps[k]

\* C38: once Stop has returned no scheduler of the cron worker is running and
\* no scheduled POST is fired, whatever a reload triggered by a write to the
\* cron file was doing meanwhile.
StopStopsCron ==
    (sys = "cron" /\ call.pc = "returned")
    => /\ hist.running = {}
       /\ ~hist.fired

\* the goroutines between a write event and the end of the Run that follows
Reloading == {g \in Launched : workers[g].pc \in {"load", "entries", "run", "watch"}}

\* goroutines selecting on their watcher's events
Watching == {g \in Launched : workers[g].pc = "select"}

\* C39: while Stop has not been called, once the reload that follows a write
\* event is over the worker watches the cron file again, also when the reload
\* failed; and once every write has been handled a valid cron file has its
\* schedule running.
Rewatches ==
    (sys = "cron" /\ ~crashed /\ call.pc = "idle" /\ Launched # {} /\ Reloading = {})
    => /\ Watching # {}
       /\ (hist.file = "valid" /\ \A g \in Watching : workers[g].events = 0)
          => hist.cron \in hist.running

====
